---- MODULE Spec2Model ----
(***************************************************************************)
(* Model of the zendesk-app task-details service: the route handler,       *)
(* fetchTaskDetailsByContact (the aggregator), the contact resolver, the    *)
(* task retriever, the doctor / intake / appointment / document loaders    *)
(* and the document classifier.                                             *)
(*                                                                          *)
(* Text values (email, phone, document type, the limit query parameter)    *)
(* are sequences of one-character strings, so that trim, toLowerCase and   *)
(* Number() are computed character by character.  JavaScript numbers are    *)
(* records: NaN, +/-Infinity, or a finite value held in tenths.             *)
(***************************************************************************)
EXTENDS Integers, Sequences, FiniteSets, TLC

\* ------------------------------------------------------------------ bounds

\* number of task rows in the store
MaxTasks == 3
\* number of document rows in the store
MaxDocs == 2
\* number of intake-form rows in the store
MaxIntakes == 2
\* creation / start times are drawn from 1..MaxTime
MaxTime == 2
\* length of the document lists handed to the classifier on its own
MaxBucketDocs == 2
\* rows of the appointments table
MaxAppointments == 2

\* ------------------------------------------------------- values and text

\* null / undefined for a text value (no text has a character of more
\* than one letter, so neither is a text)
Null == <<"null">>
Undefined == <<"undefined">>
\* a text whose characters are never looked at, held as one piece
Text(w) == <<w>>
\* null in a numeric column or field (ids and times are never negative)
NullNum == 0 - 1
\* null where a row or an object is expected
NullRow == [null |-> TRUE]

IsNullish(v) == v = Null \/ v = Undefined

\* s ?? d for a text value
Coalesce(v, d) == IF IsNullish(v) THEN d ELSE v

UpperChars == <<"A","B","C","D","E","F","G","H","I","J","K","L","M",
                "N","O","P","Q","R","S","T","U","V","W","X","Y","Z">>
LowerChars == <<"a","b","c","d","e","f","g","h","i","j","k","l","m",
                "n","o","p","q","r","s","t","u","v","w","x","y","z">>

WhiteSpace == {" ", "\t", "\n"}

Digits == <<"0","1","2","3","4","5","6","7","8","9">>

IsDigit(c) == \E i \in 1..10 : Digits[i] = c

DigitValue(c) == (CHOOSE i \in 1..10 : Digits[i] = c) - 1

LowerOf == [c \in {UpperChars[i] : i \in 1..26} |->
              LowerChars[CHOOSE i \in 1..26 : UpperChars[i] = c]]
UpperOf == [c \in {LowerChars[i] : i \in 1..26} |->
              UpperChars[CHOOSE i \in 1..26 : LowerChars[i] = c]]

LowerChar(c) == IF c \in DOMAIN LowerOf THEN LowerOf[c] ELSE c

UpperChar(c) == IF c \in DOMAIN UpperOf THEN UpperOf[c] ELSE c

\* String.prototype.toLowerCase
ToLowerCase(s) == [i \in 1..Len(s) |-> LowerChar(s[i])]

ToUpperCase(s) == [i \in 1..Len(s) |-> UpperChar(s[i])]

RECURSIVE TrimStart(_)
TrimStart(s) ==
  IF s # <<>> /\ Head(s) \in WhiteSpace THEN TrimStart(Tail(s)) ELSE s

RECURSIVE TrimEnd(_)
TrimEnd(s) ==
  IF s # <<>> /\ s[Len(s)] \in WhiteSpace
    THEN TrimEnd(SubSeq(s, 1, Len(s) - 1))
    ELSE s

\* String.prototype.trim
Trim(s) == TrimEnd(TrimStart(s))

\* value?.trim()
OptTrim(v) == IF IsNullish(v) THEN Undefined ELSE Trim(v)

\* JavaScript truthiness of a text-or-nullish value: !v is true for
\* undefined, null and the empty string
Truthy(v) == ~IsNullish(v) /\ v # <<>>

\* ---------------------------------------------------------------- numbers

NaN == [k |-> "nan", v |-> 0]
PosInf == [k |-> "inf", v |-> 1]
NegInf == [k |-> "inf", v |-> -1]
\* the finite number t / 10
Tenths(t) == [k |-> "num", v |-> t]
\* the integer n
IntNum(n) == Tenths(10 * n)

IsNaN(x) == x.k = "nan"

\* Number.isInteger
IsInteger(x) == x.k = "num" /\ x.v % 10 = 0

\* a < b for two numbers that are not NaN
NumLess(a, b) ==
  CASE a.k = "inf" /\ a.v = 1 -> FALSE
    [] a.k = "inf" /\ a.v = -1 -> ~(b.k = "inf" /\ b.v = -1)
    [] b.k = "inf" -> b.v = 1
    [] OTHER -> a.v < b.v

\* Math.max / Math.min
MathMax(a, b) ==
  IF IsNaN(a) \/ IsNaN(b) THEN NaN ELSE IF NumLess(a, b) THEN b ELSE a
MathMin(a, b) ==
  IF IsNaN(a) \/ IsNaN(b) THEN NaN ELSE IF NumLess(a, b) THEN a ELSE b

RECURSIVE DigitsValue(_)
DigitsValue(s) ==
  IF s = <<>> THEN 0
  ELSE 10 * DigitsValue(SubSeq(s, 1, Len(s) - 1)) + DigitValue(s[Len(s)])

AllDigits(s) == \A i \in 1..Len(s) : IsDigit(s[i])

InfinityText == <<"I","n","f","i","n","i","t","y">>

\* the unsigned part of a numeric literal: digits, with at most one
\* fractional digit (the literals the requests of this model use)
UnsignedNumber(s) ==
  LET dots == {i \in 1..Len(s) : s[i] = "."} IN
  IF s = InfinityText THEN PosInf
  ELSE IF s = <<>> THEN NaN
  ELSE IF dots = {} THEN
    IF AllDigits(s) THEN IntNum(DigitsValue(s)) ELSE NaN
  ELSE IF Cardinality(dots) > 1 THEN NaN
  ELSE
    LET d == CHOOSE i \in dots : TRUE
        ip == SubSeq(s, 1, d - 1)
        fp == SubSeq(s, d + 1, Len(s))
    IN IF Len(ip) + Len(fp) = 0 \/ ~AllDigits(ip) \/ ~AllDigits(fp) \/ Len(fp) > 1
         THEN NaN
         ELSE Tenths(10 * DigitsValue(ip) + DigitsValue(fp))

Negate(x) ==
  CASE x.k = "nan" -> NaN
    [] x.k = "inf" -> [k |-> "inf", v |-> -x.v]
    [] OTHER -> Tenths(-x.v)

\* Number(text): white space is trimmed, the empty string is 0, a signed
\* decimal literal or Infinity is its value, anything else is NaN
ToNumber(s) ==
  LET t == Trim(s) IN
  IF t = <<>> THEN IntNum(0)
  ELSE IF Head(t) = "-" THEN Negate(UnsignedNumber(Tail(t)))
  ELSE IF Head(t) = "+" THEN UnsignedNumber(Tail(t))
  ELSE UnsignedNumber(t)

MIN_LIMIT == 1
MAX_LIMIT == 25

clampLimit(value) ==
  IF IsNaN(value) THEN IntNum(MIN_LIMIT)
  ELSE MathMin(MathMax(value, IntNum(MIN_LIMIT)), IntNum(MAX_LIMIT))

\* ------------------------------------------------------------ the store

VARIABLES
  db,                 \* the store: one set of rows per table
  query,              \* the HTTP query parameters of the request in flight
  pc,                 \* position of the request handler
  email, phone, limit,            \* arguments of fetchTaskDetailsByContact
  enforcedLimit,      \* clampLimit(limit)
  patientRecord,      \* the resolved patient
  tasksResult,        \* the retrieved tasks, in the retriever's order
  doctorById, intakeMap, appointmentMap, sanitizedDocuments,
  thrown,             \* the error caught by the try block, or Null
  result,             \* the TaskDetailsResult returned
  response,           \* the HTTP response of the route
  queries,            \* the store queries issued so far, in order
  documents, buckets, \* the classifier on its own: input list and result
  dateInput, clock,   \* the date helpers on their own: argument and new Date()
  isoResult, ageResult, \* what toISOString and calculateAge gave
  keyList, loaded,    \* a loader on its own: its key list and the map it gave
  APP_URL,            \* env.APP_URL
  grouped,            \* the grouping step on its own: documentsByTask
  settings,           \* the widget: the settings the metadata promise resolves to
  metadata,           \* state of the promise client.metadata()
  API_URL, API_KEY,   \* the globals of app.js
  readyState,         \* document.readyState
  listening,          \* init is registered for DOMContentLoaded
  widget,             \* position of init()
  requesterRes,       \* what client.get('ticket.requester') resolves to
  requestsSent,       \* the calls of client.request made so far
  apiResponse,        \* how the promise of client.request settled
  loadingEl, contentEl \* the elements #loading and #content

vars == <<db, query, pc, email, phone, limit, enforcedLimit, patientRecord,
          tasksResult, doctorById, intakeMap, appointmentMap,
          sanitizedDocuments, thrown, result, response, queries,
          documents, buckets, dateInput, clock, isoResult, ageResult,
          keyList, loaded, APP_URL, grouped, settings, metadata, API_URL,
          API_KEY, readyState, listening, widget, requesterRes, requestsSent,
          apiResponse, loadingEl, contentEl>>

utilsVars == <<dateInput, clock, isoResult, ageResult>>

loaderVars == <<keyList, loaded>>

widgetVars == <<settings, metadata, API_URL, API_KEY, readyState, listening,
                widget, requesterRes, requestsSent, apiResponse, loadingEl,
                contentEl>>

callVars == <<email, phone, limit, enforcedLimit, patientRecord, tasksResult,
              doctorById, intakeMap, appointmentMap, sanitizedDocuments,
              thrown, result, response, queries>>

\* all orderings of a finite set
Perms(S) ==
  {f \in [1..Cardinality(S) -> S] : \A i, j \in 1..Cardinality(S) : i # j => f[i] # f[j]}

\* ORDER BY createdAt DESC: every ordering of the rows with non-increasing
\* creation time (rows with equal times come in any order)
OrderByCreatedAtDesc(S) ==
  {s \in Perms(S) : \A i \in 1..(Len(s) - 1) : s[i].createdAt >= s[i + 1].createdAt}

\* ORDER BY startAt DESC
OrderByStartAtDesc(S) ==
  {s \in Perms(S) : \A i \in 1..(Len(s) - 1) : s[i].startAt >= s[i + 1].startAt}

\* LIMIT n
Limit(s, n) == SubSeq(s, 1, IF n < Len(s) THEN n ELSE Len(s))

Range(s) == {s[i] : i \in 1..Len(s)}

EmptyMap == [k \in {} |-> Null]

\* Map.get(k) ?? null
MapGet(m, k) == IF k \in DOMAIN m THEN m[k] ELSE NullRow

\* ------------------------------------------------- models/patient.ts etc.

\* findPatientByContact matching on both identifiers at once
findPatientByContactBoth(store, e, p) ==
  LET normalizedEmail == OptTrim(e)
      normalizedPhone == OptTrim(p)
      matching ==
        {r \in store.patients : r.email = normalizedEmail /\ r.phone = normalizedPhone}
  IN IF ~Truthy(normalizedEmail) /\ ~Truthy(normalizedPhone)
       THEN {[queried |-> FALSE, patient |-> NullRow]}
       ELSE {[queried |-> TRUE,
              patient |-> IF s = <<>> THEN NullRow ELSE s[1]] :
               s \in OrderByCreatedAtDesc(matching)}

\* findPatientByContact: the set of its possible outcomes.  An outcome says
\* whether the patients table was queried and which patient (or Null) came
\* back; rows with equal creation times may come back in either order.
findPatientByContact(store, e, p) ==
  LET normalizedEmail == OptTrim(e)
      normalizedPhone == OptTrim(p)
      matching ==
        IF Truthy(normalizedEmail) /\ Truthy(normalizedPhone)
          THEN {r \in store.patients :
                  r.email = normalizedEmail \/ r.phone = normalizedPhone}
        ELSE IF Truthy(normalizedEmail)
          THEN {r \in store.patients : r.email = normalizedEmail}
        ELSE {r \in store.patients : r.phone = normalizedPhone}
  IN IF ~Truthy(normalizedEmail) /\ ~Truthy(normalizedPhone)
       THEN {[queried |-> FALSE, patient |-> NullRow]}
       ELSE {[queried |-> TRUE,
              patient |-> IF s = <<>> THEN NullRow ELSE s[1]] :
               s \in OrderByCreatedAtDesc(matching)}

\* the tasks of a patient, newest first, without LIMIT
getTasksForPatientNoLimit(store, patientId, n) ==
  OrderByCreatedAtDesc({t \in store.tasks : t.patientId = patientId})

\* the tasks of a patient in any order, up to the limit
getTasksForPatientUnordered(store, patientId, n) ==
  {Limit(s, n) : s \in Perms({t \in store.tasks : t.patientId = patientId})}

\* getTasksForPatient: WHERE patientId = ? ORDER BY createdAt DESC LIMIT ?
\* (the set of possible result lists)
getTasksForPatient(store, patientId, n) ==
  {Limit(s, n) :
     s \in OrderByCreatedAtDesc({t \in store.tasks : t.patientId = patientId})}

\* the distinct numeric doctor ids of the retrieved tasks, in first-seen order
RECURSIVE DistinctDoctorIds(_, _)
DistinctDoctorIds(tasks, acc) ==
  IF tasks = <<>> THEN acc
  ELSE LET id == Head(tasks).doctorId IN
       DistinctDoctorIds(Tail(tasks),
         IF id = NullNum \/ id \in Range(acc) THEN acc ELSE Append(acc, id))

\* a loader that queries its table whatever its key list
QueryAlways(table, ids) == <<table>>

\* the queries a keyed loader issues: none for an empty key list
\* (if (!ids.length) return new Map()), else one on its table
QueryFor(table, ids) == IF ids = <<>> THEN <<>> ELSE <<table>>

\* getDoctorsByIds: empty key list short-circuits; else WHERE id IN ids
getDoctorsByIds(store, ids) ==
  IF ids = <<>> THEN EmptyMap
  ELSE LET rows == {d \in store.doctors : d.id \in Range(ids)}
       IN [k \in {d.id : d \in rows} |-> CHOOSE d \in rows : d.id = k]

\* the columns getLatestIntakesByTaskIds selects
IntakeFormRow(row) ==
  [task_id |-> row.taskId, status |-> row.status, last_step |-> row.lastStep,
   tag |-> row.tag, completed_at |-> row.completedAt, created_at |-> row.createdAt]

\* for (row of rows) if (!map.has(row.task_id)) map.set(row.task_id, row)
RECURSIVE FirstSeenIntakes(_, _)
FirstSeenIntakes(rows, acc) ==
  IF rows = <<>> THEN acc
  ELSE LET row == Head(rows) IN
       FirstSeenIntakes(Tail(rows),
         IF row.task_id \in DOMAIN acc THEN acc ELSE acc @@ (row.task_id :> row))

RECURSIVE LastSeenIntakes(_, _)
LastSeenIntakes(rows, acc) ==
  IF rows = <<>> THEN acc
  ELSE LET row == Head(rows) IN
       LastSeenIntakes(Tail(rows), (row.task_id :> row) @@ acc)

DedupeIntakesLastWins(rows) == LastSeenIntakes(rows, EmptyMap)

\* the row kept per task id from the rows in the order the store gave them
DedupeIntakes(rows) == FirstSeenIntakes(rows, EmptyMap)

\* getLatestIntakesByTaskIds: the set of possible maps
getLatestIntakesByTaskIds(store, taskIds) ==
  IF taskIds = <<>> THEN {EmptyMap}
  ELSE {DedupeIntakes([i \in 1..Len(s) |-> IntakeFormRow(s[i])]) :
          s \in OrderByCreatedAtDesc({r \in store.intakes : r.taskId \in Range(taskIds)})}

\* the columns getLatestAppointmentsByTaskIds selects
AppointmentRow(row) ==
  [id |-> row.id, task_id |-> row.taskId, start_at |-> row.startAt,
   end_at |-> row.endAt, status |-> row.status, link |-> row.link]

\* if (row.task_id && !map.has(row.task_id)) map.set(row.task_id, row)
RECURSIVE FirstSeenAppointments(_, _)
FirstSeenAppointments(rows, acc) ==
  IF rows = <<>> THEN acc
  ELSE LET row == Head(rows) IN
       FirstSeenAppointments(Tail(rows),
         IF row.task_id # 0 /\ row.task_id \notin DOMAIN acc
           THEN acc @@ (row.task_id :> row) ELSE acc)

\* getLatestAppointmentsByTaskIds with the rows ordered by creation time
getLatestAppointmentsByCreation(store, taskIds) ==
  IF taskIds = <<>> THEN {EmptyMap}
  ELSE {FirstSeenAppointments([i \in 1..Len(s) |-> AppointmentRow(s[i])], EmptyMap) :
          s \in OrderByCreatedAtDesc({r \in store.appointments : r.taskId \in Range(taskIds)})}

\* getLatestAppointmentsByTaskIds: the set of possible maps
getLatestAppointmentsByTaskIds(store, taskIds) ==
  IF taskIds = <<>> THEN {EmptyMap}
  ELSE {FirstSeenAppointments([i \in 1..Len(s) |-> AppointmentRow(s[i])], EmptyMap) :
          s \in OrderByStartAtDesc({r \in store.appointments : r.taskId \in Range(taskIds)})}

\* ------------------------------------------------------ models/document.ts

\* DOCUMENT_CATEGORY_TYPES, in declaration order
bucketKeys ==
  <<"permit", "prescription", "coverLetter", "envelope", "physicianCertificate">>

Placard == <<"P","l","a","c","a","r","d">>
ParkingPermit == <<"P","a","r","k","i","n","g"," ","P","e","r","m","i","t">>
Prescription == <<"P","r","e","s","c","r","i","p","t","i","o","n">>
CoverLetter == <<"C","o","v","e","r"," ","L","e","t","t","e","r">>
Envelope == <<"E","n","v","e","l","o","p","e">>
PhysicianCredentials ==
  <<"P","h","y","s","i","c","i","a","n"," ","C","r","e","d","e","n","t","i","a","l","s">>

DOCUMENT_CATEGORY_TYPES ==
  [permit |-> <<Placard, ParkingPermit>>,
   prescription |-> <<Prescription>>,
   coverLetter |-> <<CoverLetter>>,
   envelope |-> <<Envelope>>,
   physicianCertificate |-> <<PhysicianCredentials>>]

\* document.type?.toLowerCase().trim() ?? ''
NormalizedTypeNoTrim(type) ==
  IF IsNullish(type) THEN <<>> ELSE ToLowerCase(type)

NormalizedType(type) ==
  IF IsNullish(type) THEN <<>> ELSE Trim(ToLowerCase(type))

\* candidate.toLowerCase().trim() for every candidate of every key of a
\* label table
NormalizedCandidatesOf(table) ==
  [key \in DOMAIN table |->
     {Trim(ToLowerCase(table[key][i])) : i \in 1..Len(table[key])}]

NormalizedCandidates == NormalizedCandidatesOf(DOCUMENT_CATEGORY_TYPES)

\* DOCUMENT_CATEGORY_TYPES[key].some(candidate => ... === normalizedType)
KeyMatches(candidates, key, normalizedType) == normalizedType \in candidates[key]

\* bucketKeys.find(...): the first matching key, "other" when none matches
FirstKey(candidates, normalizedType) ==
  LET hits == {i \in 1..Len(bucketKeys) : KeyMatches(candidates, bucketKeys[i], normalizedType)}
  IN IF hits = {} THEN "other"
     ELSE bucketKeys[CHOOSE i \in hits : \A j \in hits : i <= j]

\* the bucket of a document
BucketKeyOf(document) == FirstKey(NormalizedCandidates, NormalizedType(document.type))

AllBucketKeys == Range(bucketKeys) \cup {"other"}

\* the documents of one bucket, latest first
RECURSIVE BucketOfReversed(_, _, _, _)
BucketOfReversed(docs, keys, key, i) ==
  IF i > Len(docs) THEN <<>>
  ELSE IF keys[i] = key
    THEN BucketOfReversed(docs, keys, key, i + 1) \o <<docs[i]>>
    ELSE BucketOfReversed(docs, keys, key, i + 1)

\* the documents pushed to one bucket, in input order; keys[i] is the
\* bucket key found for docs[i]
RECURSIVE BucketOf(_, _, _, _)
BucketOf(docs, keys, key, i) ==
  IF i > Len(docs) THEN <<>>
  ELSE IF keys[i] = key
    THEN <<docs[i]>> \o BucketOf(docs, keys, key, i + 1)
    ELSE BucketOf(docs, keys, key, i + 1)

buildDocumentBuckets(docs) ==
  LET keys == [i \in 1..Len(docs) |-> BucketKeyOf(docs[i])]
  IN [key \in AllBucketKeys |-> BucketOf(docs, keys, key, 1)]

\* serializeDocument: the selected columns, renamed
serializeDocument(row) ==
  [id |-> row.id, type |-> row.type, taskId |-> row.taskId,
   doctorId |-> row.doctorId]

\* the rows selected without the condition on the doctor
DocumentRowsNoDoctorFilter(store, taskIds, patientId, doctorIds) ==
  {d \in store.documents : d.taskId \in Range(taskIds) /\ d.patientId = patientId}

\* the rows selected when rows without task pass the condition on the task
DocumentRowsOrNoTask(store, taskIds, patientId, doctorIds) ==
  {d \in store.documents :
     /\ d.taskId \in Range(taskIds) \cup {NullNum}
     /\ d.patientId = patientId
     /\ doctorIds # <<>> => d.doctorId \in Range(doctorIds)}

\* the rows selected without the condition on the patient
DocumentRowsNoPatientFilter(store, taskIds, patientId, doctorIds) ==
  {d \in store.documents :
     /\ d.taskId \in Range(taskIds)
     /\ doctorIds # <<>> => d.doctorId \in Range(doctorIds)}

\* the rows the document query selects
DocumentRows(store, taskIds, patientId, doctorIds) ==
  {d \in store.documents :
     /\ d.taskId \in Range(taskIds)
     /\ d.patientId = patientId
     /\ doctorIds # <<>> => d.doctorId \in Range(doctorIds)}

\* getDocumentsForTasks: the set of possible result lists (the query has no
\* ORDER BY, so the rows come in any order)
getDocumentsForTasks(store, taskIds, patientId, doctorIds) ==
  IF taskIds = <<>> \/ patientId = NullNum THEN {<<>>}
  ELSE {[i \in 1..Len(s) |-> serializeDocument(s[i])] :
          s \in Perms(DocumentRows(store, taskIds, patientId, doctorIds))}

\* ------------------------------------------------------- utils/index.ts

\* JavaScript values handed to the date helpers.  A Date object holds a time
\* value, counted here in whole days since 1970-01-01 UTC, or is an
\* Invalid Date (its time value is NaN).
JsNull == [k |-> "null"]
JsUndefined == [k |-> "undefined"]
JsString(s) == [k |-> "string", s |-> s]
JsNumber(x) == [k |-> "number", x |-> x]
JsBoolean(b) == [k |-> "boolean", b |-> b]
DateOf(t) == [k |-> "date", valid |-> TRUE, t |-> t]
InvalidDate == [k |-> "date", valid |-> FALSE, t |-> 0]

\* what the store hands over for a timestamp column: a Date or null
TimestampColumn(v) == IF v = NullNum THEN JsNull ELSE DateOf(v)

\* !value
Falsy(value) ==
  \/ value.k \in {"null", "undefined"}
  \/ value.k = "string" /\ value.s = <<>>
  \/ value.k = "number" /\ (IsNaN(value.x) \/ value.x = IntNum(0))
  \/ value.k = "boolean" /\ ~value.b

IsLeapYear(y) == (y % 4 = 0 /\ y % 100 # 0) \/ y % 400 = 0

DaysInMonth(y, m) ==
  IF m = 2 THEN (IF IsLeapYear(y) THEN 29 ELSE 28)
  ELSE IF m \in {4, 6, 9, 11} THEN 30 ELSE 31

\* the time value of the UTC calendar day y-m-d, in days since 1970-01-01
DaysFromCivil(y, m, d) ==
  LET yy == IF m <= 2 THEN y - 1 ELSE y
      era == yy \div 400
      yoe == yy - era * 400
      mp == IF m > 2 THEN m - 3 ELSE m + 9
      doy == (153 * mp + 2) \div 5 + d - 1
      doe == yoe * 365 + yoe \div 4 - yoe \div 100 + doy
  IN era * 146097 + doe - 719468

\* getUTCFullYear / getUTCMonth (+ 1) / getUTCDate of a time value
CivilFromDays(t) ==
  LET z == t + 719468
      era == z \div 146097
      doe == z - era * 146097
      yoe == (doe - doe \div 1460 + doe \div 36524 - doe \div 146096) \div 365
      doy == doe - (365 * yoe + yoe \div 4 - yoe \div 100)
      mp == (5 * doy + 2) \div 153
      m == IF mp < 10 THEN mp + 3 ELSE mp - 9
  IN [y |-> IF m <= 2 THEN yoe + era * 400 + 1 ELSE yoe + era * 400,
      m |-> m,
      d |-> doy - (153 * mp + 2) \div 5 + 1]

\* the decimal text of n, padded with zeros to width w
RECURSIVE Padded(_, _)
Padded(n, w) ==
  IF w = 0 THEN <<>>
  ELSE Padded(n \div 10, w - 1)
       \o <<Digits[(n % 10) + 1]>>

\* new Date(text): a text YYYY-MM-DD naming an existing day is that day at
\* midnight UTC; a text holding no date at all is an Invalid Date
DateFromText(s) ==
  IF /\ Len(s) = 10
     /\ s[5] = "-" /\ s[8] = "-"
     /\ \A i \in {1, 2, 3, 4, 6, 7, 9, 10} : IsDigit(s[i])
  THEN LET y == DigitsValue(SubSeq(s, 1, 4))
           m == DigitsValue(SubSeq(s, 6, 7))
           d == DigitsValue(SubSeq(s, 9, 10))
       IN IF m \in 1..12 /\ d \in 1..DaysInMonth(y, m)
            THEN DateOf(DaysFromCivil(y, m, d))
            ELSE InvalidDate
  ELSE InvalidDate

\* value instanceof Date ? value : new Date(value)
NewDate(value) ==
  IF value.k = "date" THEN value
  ELSE IF value.k = "string" THEN DateFromText(value.s)
  ELSE InvalidDate

\* parseDate without its check for an Invalid Date
parseDateUnchecked(value) ==
  IF Falsy(value) THEN JsNull ELSE NewDate(value)

\* parseDate: null for a falsy value and for an Invalid Date
parseDate(value) ==
  IF Falsy(value) THEN JsNull
  ELSE LET date == NewDate(value)
       IN IF ~date.valid THEN JsNull ELSE date

\* what a thrown RangeError looks like to the caller
RangeError == <<"RangeError: Invalid time value">>

\* the text Date.prototype.toISOString gives for the time value t
IsoText(t) ==
  LET c == CivilFromDays(t)
  IN Padded(c.y, 4) \o <<"-">> \o Padded(c.m, 2) \o <<"-">> \o Padded(c.d, 2)
     \o <<"T","0","0",":","0","0",":","0","0",".","0","0","0","Z">>

\* Date.prototype.toISOString: throws a RangeError on an Invalid Date
DateToISOString(date) == IF date.valid THEN IsoText(date.t) ELSE RangeError

\* toISOString
toISOString(value) ==
  LET date == parseDate(value)
  IN IF date.k = "date" THEN DateToISOString(date) ELSE Null

\* calculateAge comparing the months only
calculateAgeMonthsOnly(dob, today) ==
  LET normalized == parseDate(dob) IN
  IF normalized.k # "date" THEN NullNum
  ELSE LET n == CivilFromDays(normalized.t)
           t == CivilFromDays(today.t)
       IN IF t.m - n.m < 0 THEN t.y - n.y - 1 ELSE t.y - n.y

\* calculateAge, today being new Date()
calculateAge(dob, today) ==
  LET normalized == parseDate(dob) IN
  IF normalized.k # "date" THEN NullNum
  ELSE LET n == CivilFromDays(normalized.t)
           t == CivilFromDays(today.t)
           age == t.y - n.y
           monthDiff == t.m - n.m
       IN IF monthDiff < 0 \/ (monthDiff = 0 /\ t.d < n.d) THEN age - 1 ELSE age

\* the text without its last character when this is a slash
trimOneTrailingSlash(value) ==
  IF IsNullish(value) THEN <<>>
  ELSE IF value # <<>> /\ value[Len(value)] = "/" THEN SubSeq(value, 1, Len(value) - 1)
  ELSE value

\* value.replace(/\/+$/, ''): the text without the slashes at its end
RECURSIVE WithoutTrailingSlashes(_)
WithoutTrailingSlashes(s) ==
  IF s # <<>> /\ s[Len(s)] = "/" THEN WithoutTrailingSlashes(SubSeq(s, 1, Len(s) - 1))
  ELSE s

\* trimTrailingSlash: value?.replace(/\/+$/, '') ?? ''
trimTrailingSlash(value) ==
  IF IsNullish(value) THEN <<>> ELSE WithoutTrailingSlashes(value)

\* `${n}` for a whole number n >= 0
RECURSIVE NumberText(_)
NumberText(n) ==
  IF n < 10 THEN <<Digits[n + 1]>>
  ELSE NumberText(n \div 10) \o <<Digits[(n % 10) + 1]>>

\* ----------------------------------------------------- taskDetails.ts

GENERIC_ERROR == "Unexpected server error"

BadInput ==
  [success |-> FALSE, error |-> "Email or phone is required to fetch task details",
   status |-> 400]
PatientNotFoundAsBadInput ==
  [success |-> FALSE, error |-> "Patient not found for the provided criteria",
   status |-> 400]

PatientNotFound ==
  [success |-> FALSE, error |-> "Patient not found for the provided criteria",
   status |-> 404]
\* the catch block's return value for a caught error
CatchLeaksMessage(error) == [success |-> FALSE, error |-> error, status |-> 500]

CatchResult(error) == [success |-> FALSE, error |-> GENERIC_ERROR, status |-> 500]

\* no result yet
Pending == [pending |-> TRUE]

TaskIds(tasks) == [i \in 1..Len(tasks) |-> tasks[i].id]

DoctorIds(tasks) == DistinctDoctorIds(tasks, <<>>)

\* the last task id as the fallback
FallbackTaskIdLast(taskIds) == IF taskIds = <<>> THEN NullNum ELSE taskIds[Len(taskIds)]

\* taskIds[0] ?? null
FallbackTaskId(taskIds) == IF taskIds = <<>> THEN NullNum ELSE taskIds[1]

\* the reduce that groups the loaded documents by target task id
RECURSIVE GroupDocuments(_, _, _)
GroupDocuments(docs, fallbackTaskId, acc) ==
  IF docs = <<>> THEN acc
  ELSE LET doc == Head(docs)
           targetTaskId == IF doc.taskId = NullNum THEN fallbackTaskId ELSE doc.taskId
       IN GroupDocuments(Tail(docs), fallbackTaskId,
            IF targetTaskId = NullNum \/ targetTaskId = 0 THEN acc
            ELSE IF targetTaskId \in DOMAIN acc
              THEN [acc EXCEPT ![targetTaskId] = Append(@, doc)]
              ELSE acc @@ (targetTaskId :> <<doc>>))

DocumentsByTask(docs, taskIds) ==
  GroupDocuments(docs, FallbackTaskId(taskIds), EmptyMap)

\* the status derived with the completion timestamp looked at first
IntakeStatusCompletedFirst(intakeRecord) ==
  IF intakeRecord = NullRow THEN Null
  ELSE IF intakeRecord.completed_at # NullNum THEN Text("completed")
  ELSE IF ~IsNullish(intakeRecord.status) THEN intakeRecord.status
  ELSE Text("pending")

\* intakeRecord?.status ?? (completed_at ? 'completed' : intakeRecord ? 'pending' : null)
IntakeStatus(intakeRecord) ==
  IF intakeRecord = NullRow THEN Null
  ELSE IF ~IsNullish(intakeRecord.status) THEN intakeRecord.status
  ELSE IF intakeRecord.completed_at # NullNum THEN Text("completed")
  ELSE Text("pending")

IntakeView(intakeRecord) ==
  [status |-> IntakeStatus(intakeRecord),
   submitted |-> intakeRecord # NullRow,
   isCompleted |-> intakeRecord # NullRow /\ intakeRecord.completed_at # NullNum,
   lastStep |-> IF intakeRecord = NullRow THEN Null ELSE intakeRecord.last_step,
   tag |-> IF intakeRecord = NullRow THEN Null ELSE intakeRecord.tag,
   completedAt |-> IF intakeRecord = NullRow THEN Null
                   ELSE toISOString(TimestampColumn(intakeRecord.completed_at)),
   createdAt |-> IF intakeRecord = NullRow THEN Null
                 ELSE toISOString(TimestampColumn(intakeRecord.created_at))]

AppointmentView(appointmentRecord) ==
  IF appointmentRecord = NullRow THEN NullRow
  ELSE [startAt |-> toISOString(TimestampColumn(appointmentRecord.start_at)),
        endAt |-> toISOString(TimestampColumn(appointmentRecord.end_at)),
        status |-> appointmentRecord.status,
        link |-> appointmentRecord.link]

\* the fields of doctorInfo that are doctorRecord?.field ?? null
doctorInfoFields ==
  {"firstName", "middleName", "lastName", "phoneNumber", "profilePicture",
   "credentials", "npiNumber", "state", "city", "country", "timezone", "isActive"}

\* doctorInfo: id is doctorRecord?.id ?? task.doctorId ?? null, every other
\* field is doctorRecord?.field ?? null
DoctorInfo(task, doctorRecord) ==
  [field \in doctorInfoFields |->
     IF doctorRecord = NullRow THEN Null ELSE doctorRecord[field]]
  @@ [id |-> IF doctorRecord # NullRow THEN doctorRecord.id ELSE task.doctorId]

AdminTasksPath == <<"/","a","d","m","i","n","/","t","a","s","k","s","/">>

AdminPatientsPath == <<"/","a","d","m","i","n","/","p","a","t","i","e","n","t","s","/">>

EditPath == <<"/","e","d","i","t">>

\* links.carePortalTask of a task view:
\* carePortalBase && task.id ? `${carePortalBase}/admin/tasks/${task.id}` : null
CarePortalTask(task, carePortalBase) ==
  IF carePortalBase # <<>> /\ task.id # NullNum /\ task.id # 0
    THEN carePortalBase \o AdminTasksPath \o NumberText(task.id)
    ELSE Null

\* a patient link that is null without a base, as the task links are
PatientLinkNullWithoutBase(p, carePortalBase) ==
  IF carePortalBase # <<>> /\ p.id # NullNum /\ p.id # 0
    THEN carePortalBase \o AdminPatientsPath \o NumberText(p.id) \o EditPath
    ELSE Null

\* patientLink:
\* patientRecord.id ? `${carePortalBase}/admin/patients/${patientRecord.id}/edit` : null
PatientLink(p, carePortalBase) ==
  IF p.id # NullNum /\ p.id # 0
    THEN carePortalBase \o AdminPatientsPath \o NumberText(p.id) \o EditPath
    ELSE Null

\* one element of tasksWithDetails
TaskView(task, doctors, intakes, appointments, documentsByTask, carePortalBase) ==
  LET intakeRecord == MapGet(intakes, task.id)
      docBuckets ==
        buildDocumentBuckets(
          IF task.id \in DOMAIN documentsByTask THEN documentsByTask[task.id] ELSE <<>>)
      appointmentRecord == MapGet(appointments, task.id)
      doctorRecord ==
        IF task.doctorId # NullNum THEN MapGet(doctors, task.doctorId) ELSE NullRow
  IN [taskId |-> task.id,
      doctorId |-> task.doctorId,
      doctor |-> DoctorInfo(task, doctorRecord),
      createdAt |-> toISOString(TimestampColumn(task.createdAt)),
      intakeStatus |-> IntakeStatus(intakeRecord),
      intake |-> IntakeView(intakeRecord),
      appointment |-> AppointmentView(appointmentRecord),
      appointmentStartTime |->
        IF appointmentRecord = NullRow THEN Null
        ELSE toISOString(TimestampColumn(appointmentRecord.start_at)),
      links |-> [carePortalTask |-> CarePortalTask(task, carePortalBase)],
      documents |-> docBuckets]

\* the keys normalizedPatient sets after the spread of patientRecord
NormalizedPatientKeys ==
  {"dob", "age", "first_name", "last_name", "phone", "email", "city", "state"}

\* patientDob, and the values of the keys set after the spread
PatientOverrides(p, today) ==
  LET patientDob == TimestampColumn(p.dob) IN
  [dob |-> toISOString(patientDob),
   age |-> calculateAge(patientDob, today),
   first_name |-> Coalesce(p.firstName, Null),
   last_name |-> Coalesce(p.lastName, Null),
   phone |-> Coalesce(p.phone, Null),
   email |-> Coalesce(p.email, Null),
   city |-> Coalesce(p.city, Null),
   state |-> Coalesce(p.state, Null)]

\* a patient object without the password
NormalizedPatientNoPassword(p, today) ==
  [key \in (DOMAIN p \cup NormalizedPatientKeys) \ {"password"} |->
     IF key \in NormalizedPatientKeys THEN PatientOverrides(p, today)[key] ELSE p[key]]

\* normalizedPatient: { ...patientRecord, dob: ..., age: ..., ... }
NormalizedPatient(p, today) ==
  [key \in DOMAIN p \cup NormalizedPatientKeys |->
     IF key \in NormalizedPatientKeys THEN PatientOverrides(p, today)[key] ELSE p[key]]

\* the task views, last retrieved task first
tasksWithDetailsReversed(tasks, doctors, intakes, appointments, documentsByTask, carePortalBase) ==
  [i \in 1..Len(tasks) |->
     TaskView(tasks[Len(tasks) + 1 - i], doctors, intakes, appointments, documentsByTask,
              carePortalBase)]

\* tasksWithDetails: tasksResult.map((task) => ...)
tasksWithDetails(tasks, doctors, intakes, appointments, documentsByTask, carePortalBase) ==
  [i \in 1..Len(tasks) |->
     TaskView(tasks[i], doctors, intakes, appointments, documentsByTask, carePortalBase)]

\* links.patientPortal of a success result
PatientPortalLinks ==
  [login |-> Null, medicalRecord |-> Null, driversLicense |-> Null, consent |-> Null,
   profile |-> Null]

SuccessResult(p, tasks, doctors, intakes, appointments, docs, appUrl, today) ==
  LET documentsByTask == DocumentsByTask(docs, TaskIds(tasks))
      carePortalBase == trimTrailingSlash(appUrl)
  IN [success |-> TRUE,
      data |-> [patient |-> NormalizedPatient(p, today),
                tasks |-> tasksWithDetails(tasks, doctors, intakes, appointments,
                                           documentsByTask, carePortalBase),
                links |-> [patientPortal |-> PatientPortalLinks,
                           carePortalPatient |-> PatientLink(p, carePortalBase)]]]

\* ------------------------------------------------------------ the actions

\* the return for a patient without tasks
NoTasksAsEmptySuccess ==
  [success |-> TRUE,
   data |-> [patient |-> NormalizedPatient(patientRecord, clock), tasks |-> <<>>,
             links |-> [patientPortal |-> PatientPortalLinks,
                        carePortalPatient |->
                          PatientLink(patientRecord, trimTrailingSlash(APP_URL))]]]

NoTasksFound ==
  [success |-> FALSE, error |-> "No tasks found for the given criteria",
   status |-> 404]

ErrorMessages == {"connection terminated unexpectedly"}

\* nothing was thrown
NoError == ""

\* a store whose task rows were deleted
StoreAfterDelete(store) == [store EXCEPT !.tasks = {}]

\* the store after the statements of the call, all of them db.select():
\* the rows are as they were
StoreAfterSelect(store) == store

\* what the call leaves untouched: the store, the request, the classifier
Frame ==
  /\ db' = StoreAfterSelect(db)
  /\ UNCHANGED <<query, documents, buckets>>
  /\ UNCHANGED utilsVars
  /\ UNCHANGED loaderVars
  /\ UNCHANGED <<APP_URL, grouped>>
  /\ UNCHANGED widgetVars

\* app.get('/'): read the query parameters, convert limit with Number(),
\* call fetchTaskDetailsByContact
Route ==
  /\ pc = "route"
  /\ email' = query.email
  /\ phone' = query.phone
  /\ limit' = ToNumber(IF query.limit = Undefined THEN <<"1", "0">> ELSE query.limit)
  /\ pc' = "entry"
  /\ UNCHANGED <<enforcedLimit, patientRecord, tasksResult, doctorById, intakeMap,
                 appointmentMap, sanitizedDocuments, thrown, result, response, queries>>
  /\ Frame

\* the check of the identifiers done before any store access
MissingIdentifiersNever(e, p) == FALSE

\* the check done on the trimmed identifiers
MissingIdentifiersTrimmed(e, p) == ~Truthy(OptTrim(e)) /\ ~Truthy(OptTrim(p))

\* !email && !phone
MissingIdentifiers(e, p) == ~Truthy(e) /\ ~Truthy(p)

\* fetchTaskDetailsByContact up to clampLimit
Entry ==
  /\ pc = "entry"
  /\ IF MissingIdentifiers(email, phone)
       THEN /\ result' = BadInput
            /\ pc' = "return"
            /\ UNCHANGED enforcedLimit
       ELSE /\ enforcedLimit' = clampLimit(limit)
            /\ pc' = "findPatient"
            /\ UNCHANGED result
  /\ UNCHANGED <<email, phone, limit, patientRecord, tasksResult, doctorById, intakeMap,
                 appointmentMap, sanitizedDocuments, thrown, response, queries>>
  /\ Frame

\* await findPatientByContact(...) and the not-found return
FindPatient ==
  /\ pc = "findPatient"
  /\ \E out \in findPatientByContact(db, email, phone) :
       /\ queries' = IF out.queried THEN Append(queries, "patients") ELSE queries
       /\ patientRecord' = out.patient
       /\ IF out.patient = NullRow
            THEN /\ result' = PatientNotFound
                 /\ pc' = "return"
            ELSE /\ pc' = "getTasks"
                 /\ UNCHANGED result
  /\ UNCHANGED <<email, phone, limit, enforcedLimit, tasksResult, doctorById, intakeMap,
                 appointmentMap, sanitizedDocuments, thrown, response>>
  /\ Frame

\* await getTasksForPatient(...) and the no-tasks return.  The store takes
\* a whole number of rows as LIMIT; any other value makes the query fail
\* (StoreThrows).
GetTasks ==
  /\ pc = "getTasks"
  /\ IsInteger(enforcedLimit)
  /\ \E rows \in getTasksForPatient(db, patientRecord.id, enforcedLimit.v \div 10) :
       /\ tasksResult' = rows
       /\ IF rows = <<>>
            THEN /\ result' = NoTasksFound
                 /\ pc' = "return"
            ELSE /\ pc' = "getDoctors"
                 /\ UNCHANGED result
  /\ queries' = Append(queries, "tasks")
  /\ UNCHANGED <<email, phone, limit, enforcedLimit, patientRecord, doctorById, intakeMap,
                 appointmentMap, sanitizedDocuments, thrown, response>>
  /\ Frame

\* await getDoctorsByIds(doctorIds)
GetDoctors ==
  /\ pc = "getDoctors"
  /\ doctorById' = getDoctorsByIds(db, DoctorIds(tasksResult))
  /\ queries' = queries \o QueryFor("doctors", DoctorIds(tasksResult))
  /\ pc' = "getIntakes"
  /\ UNCHANGED <<email, phone, limit, enforcedLimit, patientRecord, tasksResult, intakeMap,
                 appointmentMap, sanitizedDocuments, thrown, result, response>>
  /\ Frame

\* await getLatestIntakesByTaskIds(taskIds)
GetIntakes ==
  /\ pc = "getIntakes"
  /\ intakeMap' \in getLatestIntakesByTaskIds(db, TaskIds(tasksResult))
  /\ queries' = queries \o QueryFor("patient_intake_forms", TaskIds(tasksResult))
  /\ pc' = "getAppointments"
  /\ UNCHANGED <<email, phone, limit, enforcedLimit, patientRecord, tasksResult, doctorById,
                 appointmentMap, sanitizedDocuments, thrown, result, response>>
  /\ Frame

\* await getLatestAppointmentsByTaskIds(taskIds)
GetAppointments ==
  /\ pc = "getAppointments"
  /\ appointmentMap' \in getLatestAppointmentsByTaskIds(db, TaskIds(tasksResult))
  /\ queries' = queries \o QueryFor("appointments", TaskIds(tasksResult))
  /\ pc' = "getDocuments"
  /\ UNCHANGED <<email, phone, limit, enforcedLimit, patientRecord, tasksResult, doctorById,
                 intakeMap, sanitizedDocuments, thrown, result, response>>
  /\ Frame

\* await getDocumentsForTasks(taskIds, patientRecord.id, doctorIds)
GetDocuments ==
  /\ pc = "getDocuments"
  /\ sanitizedDocuments' \in
       getDocumentsForTasks(db, TaskIds(tasksResult), patientRecord.id,
                            DoctorIds(tasksResult))
  /\ queries' = IF TaskIds(tasksResult) = <<>> \/ patientRecord.id = NullNum THEN queries
                ELSE Append(queries, "documents")
  /\ pc' = "join"
  /\ UNCHANGED <<email, phone, limit, enforcedLimit, patientRecord, tasksResult, doctorById,
                 intakeMap, appointmentMap, thrown, result, response>>
  /\ Frame

\* the grouping of the documents, tasksWithDetails, the patient and the
\* success return
Join ==
  /\ pc = "join"
  /\ result' = SuccessResult(patientRecord, tasksResult, doctorById, intakeMap,
                             appointmentMap, sanitizedDocuments, APP_URL, clock)
  /\ pc' = "return"
  /\ UNCHANGED <<email, phone, limit, enforcedLimit, patientRecord, tasksResult, doctorById,
                 intakeMap, appointmentMap, sanitizedDocuments, thrown, response, queries>>
  /\ Frame

\* the table the awaited call at this position queries, "" when it
\* returns without a query
TableQueried ==
  CASE pc = "findPatient" ->
         IF Truthy(OptTrim(email)) \/ Truthy(OptTrim(phone)) THEN "patients" ELSE ""
    [] pc = "getTasks" -> "tasks"
    [] pc = "getDoctors" -> IF QueryFor("doctors", DoctorIds(tasksResult)) = <<>> THEN "" ELSE "doctors"
    [] pc = "getIntakes" -> "patient_intake_forms"
    [] pc = "getAppointments" -> "appointments"
    [] pc = "getDocuments" -> "documents"
    [] OTHER -> ""

\* where control goes when an awaited call rejects inside the try block
OnStoreErrorDocumentsSwallowed == IF pc = "getDocuments" THEN "join" ELSE "catch"

OnStoreError == "catch"

\* a store query of the awaited call rejects: control goes to the catch block
StoreThrows ==
  /\ TableQueried # ""
  /\ queries' = Append(queries, TableQueried)
  /\ thrown' \in ErrorMessages
  /\ pc' = OnStoreError
  /\ UNCHANGED <<email, phone, limit, enforcedLimit, patientRecord, tasksResult, doctorById,
                 intakeMap, appointmentMap, sanitizedDocuments, result, response>>
  /\ Frame

\* catch (error) { console.error(...); return { ... status: 500 } }
Catch ==
  /\ pc = "catch"
  /\ result' = CatchResult(thrown)
  /\ pc' = "return"
  /\ UNCHANGED <<email, phone, limit, enforcedLimit, patientRecord, tasksResult, doctorById,
                 intakeMap, appointmentMap, sanitizedDocuments, thrown, response, queries>>
  /\ Frame

\* the route's answer: the error text with its status, or the rendered page
Respond ==
  /\ pc = "return"
  /\ response' = IF result.success THEN [status |-> 200, body |-> "html"]
                 ELSE [status |-> result.status, body |-> result.error]
  /\ pc' = "responded"
  /\ UNCHANGED <<email, phone, limit, enforcedLimit, patientRecord, tasksResult, doctorById,
                 intakeMap, appointmentMap, sanitizedDocuments, thrown, result, queries>>
  /\ Frame

Next ==
  \/ Route
  \/ Entry
  \/ FindPatient
  \/ GetTasks
  \/ GetDoctors
  \/ GetIntakes
  \/ GetAppointments
  \/ GetDocuments
  \/ Join
  \/ StoreThrows
  \/ Catch
  \/ Respond

\* ------------------------------------------------------ the initial states

EmailA == <<"a","@","x">>
EmailB == <<"b","@","x">>
EmailC == <<"c","@","x">>
EmailZ == <<"z","@","x">>
Phone5 == <<"5","5","5">>
Phone6 == <<"6","6","6">>
Phone9 == <<"9","9","9">>

\* three patients: 1 and 2 share a phone (2 is the newer), 3 has no task
FixturePatients ==
  {[id |-> 1, email |-> EmailA, phone |-> Phone5, firstName |-> Text("Ann"),
    lastName |-> Text("Lee"), password |-> Text("hash1"), city |-> Text("LA"),
    state |-> Text("CA"), dob |-> DaysFromCivil(2000, 6, 15),
    paymentProviderCustomerId |-> Text("cus_1"), driverLicense |-> Text("D123"),
    createdAt |-> 1],
   [id |-> 2, email |-> EmailB, phone |-> Phone5, firstName |-> Text("Bob"),
    lastName |-> Null, password |-> Null, city |-> Null, state |-> Null,
    dob |-> NullNum, paymentProviderCustomerId |-> Null, driverLicense |-> Null,
    createdAt |-> 2],
   [id |-> 3, email |-> EmailC, phone |-> Phone6, firstName |-> Text("Cy"),
    lastName |-> Text("Ng"), password |-> Text("hash3"), city |-> Null,
    state |-> Text("NY"), dob |-> DaysFromCivil(1999, 7, 15),
    paymentProviderCustomerId |-> Null, driverLicense |-> Text("D9"),
    createdAt |-> 1]}

FixtureDoctors ==
  {[id |-> 1, firstName |-> Text("Dana"), middleName |-> Null, lastName |-> Text("Roe"),
    phoneNumber |-> Text("777"), profilePicture |-> Null, credentials |-> Text("MD"),
    npiNumber |-> Text("npi"), state |-> Text("CA"), city |-> Text("LA"),
    country |-> Text("US"), timezone |-> Text("PST"), isActive |-> TRUE]}

FixtureTasks ==
  {[id |-> 1, patientId |-> 1, doctorId |-> 1, createdAt |-> 2],
   [id |-> 2, patientId |-> 1, doctorId |-> NullNum, createdAt |-> 1],
   [id |-> 3, patientId |-> 2, doctorId |-> NullNum, createdAt |-> 1]}

IntakeRow(id, taskId, createdAt, status, completedAt) ==
  [id |-> id, taskId |-> taskId, status |-> status, lastStep |-> <<"step", id>>,
   tag |-> Null, completedAt |-> completedAt, createdAt |-> createdAt]

FixtureIntakes == {IntakeRow(1, 1, 1, Null, NullNum)}

FixtureAppointments ==
  {[id |-> 1, taskId |-> 1, startAt |-> 1, endAt |-> 2, status |-> Text("scheduled"),
    link |-> Null, createdAt |-> 1],
   [id |-> 2, taskId |-> 1, startAt |-> 2, endAt |-> 3, status |-> Text("confirmed"),
    link |-> Null, createdAt |-> 1]}

\* a table of MaxAppointments appointments: row i is of task f[i].task,
\* starts at f[i].start, was created at f[i].created
AppointmentTable(f) ==
  {[id |-> i, taskId |-> f[i].task, startAt |-> f[i].start, endAt |-> f[i].start + 1,
    status |-> Text("scheduled"), link |-> <<"link", i>>, createdAt |-> f[i].created] :
     i \in 1..MaxAppointments}

DocumentRow(id, taskId, patientId, doctorId, type) ==
  [id |-> id, taskId |-> taskId, patientId |-> patientId, doctorId |-> doctorId,
   type |-> type]

FixtureDocuments ==
  {DocumentRow(1, 1, 1, 1, Placard), DocumentRow(2, 1, 2, 1, Envelope)}

FixtureDb ==
  [patients |-> FixturePatients, tasks |-> FixtureTasks, doctors |-> FixtureDoctors,
   intakes |-> FixtureIntakes, appointments |-> FixtureAppointments,
   documents |-> FixtureDocuments]

Times == 1..MaxTime

\* task i refers to doctor 1, to no doctor, or to a doctor that has no row
TaskDoctor(i) == IF i % 3 = 1 THEN 1 ELSE IF i % 3 = 2 THEN NullNum ELSE 2

\* a table of MaxTasks tasks: task i is of patient f[i].p, created at f[i].t
TaskTable(f) ==
  {[id |-> i, patientId |-> f[i].p, doctorId |-> TaskDoctor(i), createdAt |-> f[i].t] :
     i \in 1..MaxTasks}

DocumentTypeOf(i) == IF i % 2 = 1 THEN Placard ELSE Envelope

\* what a document row may refer to: a task or none, a patient, a doctor
\* (with or without a row) or none
DocumentRefs == [t : {1, 2, 3, NullNum}, p : {1, 2}, d : {1, 2, NullNum}]

\* the id of the document row with these references
DocumentId(c) ==
  1 + 6 * (IF c.t = NullNum THEN 0 ELSE c.t) + 3 * (c.p - 1)
    + (IF c.d = NullNum THEN 0 ELSE c.d)

\* a table of up to MaxDocs documents: one row for each of the references
\* f[1], ..., f[MaxDocs]
DocumentTable(f) ==
  {DocumentRow(DocumentId(f[i]), f[i].t, f[i].p, f[i].d, DocumentTypeOf(DocumentId(f[i]))) :
     i \in 1..MaxDocs}

IntakeStates ==
  {[status |-> Text("in_progress"), completedAt |-> NullNum],
   [status |-> Text("in_review"), completedAt |-> 1],
   [status |-> Null, completedAt |-> 1],
   [status |-> Null, completedAt |-> NullNum]}

\* a table of MaxIntakes intake rows: row i is of task f[i].task, created
\* at f[i].t, in state f[i].s
IntakeTable(f) ==
  {IntakeRow(i, f[i].task, f[i].t, f[i].s.status, f[i].s.completedAt) :
     i \in 1..MaxIntakes}

Request(e, p, l) == [email |-> e, phone |-> p, limit |-> l]

\* email / phone query parameters: absent, empty, blank, known, unknown
ContactRequests ==
  {Request(e, p, Undefined) :
     e \in {Undefined, <<>>, <<" ">>, EmailA, <<" ">> \o EmailA \o <<" ">>, EmailC, EmailZ},
     p \in {Undefined, <<>>, <<" ">>, Phone5, Phone9}}

\* limit query parameters
LimitTexts ==
  {<<>>, <<"a","b","c">>, <<"0">>, <<"1">>, <<"2">>, <<"2","5">>, <<"2","6">>,
   <<"1","0","0">>, <<"-","4">>, <<"2",".","5">>, <<"1",".","0">>, <<" ","2"," ">>,
   <<"3","x">>, InfinityText, <<"-">> \o InfinityText}

LimitRequests == {Request(EmailA, Undefined, l) : l \in LimitTexts}

SmallLimitRequests ==
  {Request(EmailA, Undefined, l) : l \in {Undefined, <<"1">>, <<"2">>}}
  \cup {Request(EmailA, Phone5, <<"2">>)}

\* the fixture's patients, patient i created at f[i]
PatientTable(f) == {[r EXCEPT !.createdAt = f[r.id]] : r \in FixturePatients}

PatientRequests ==
  {Request(EmailA, Phone5, Undefined), Request(Undefined, Phone5, Undefined),
   Request(EmailC, Phone5, Undefined), Request(EmailB, <<" ">>, Undefined)}

DocumentRequests ==
  {Request(EmailA, Undefined, Undefined), Request(EmailB, Undefined, Undefined)}

\* the base URL of the care portal in the fixture's environment
FixtureAppUrl == <<"h","t","t","p",":","/","/","c">>

\* the fixture's environment and the day the fixture's clock shows
FixtureEnv ==
  /\ APP_URL = FixtureAppUrl
  /\ clock = DateOf(DaysFromCivil(2024, 6, 15))

\* process.env.APP_URL: unset, empty, slashes only, a URL without and with
\* slashes at its end
AppUrlSettings ==
  {Undefined, <<>>, <<"/">>, <<"/","/">>, FixtureAppUrl, FixtureAppUrl \o <<"/">>,
   FixtureAppUrl \o <<"/","/">>, FixtureAppUrl \o <<"/","a","/","/","/">>}

\* the days the server's clock shows
ServerDays == {DaysFromCivil(2024, 6, 14), DaysFromCivil(2024, 6, 15)}

EnvRequests ==
  {Request(EmailA, Undefined, Undefined), Request(EmailB, Undefined, Undefined),
   Request(EmailC, Phone5, Undefined)}

\* a store, an environment and a request in flight: one table at a time
\* ranges over all its contents, or the environment does, the rest holds
\* the fixture
InitialStore ==
  \/ /\ db = FixtureDb
     /\ query \in ContactRequests \cup LimitRequests
     /\ FixtureEnv
  \/ /\ \E f \in [{r.id : r \in FixturePatients} -> Times] :
          db = [FixtureDb EXCEPT !.patients = PatientTable(f)]
     /\ query \in PatientRequests
     /\ FixtureEnv
  \/ /\ \E f \in [1..MaxTasks -> [p : {1, 2}, t : Times]] :
          db = [FixtureDb EXCEPT !.tasks = TaskTable(f)]
     /\ query \in SmallLimitRequests
     /\ FixtureEnv
  \/ /\ \E f \in [1..MaxDocs -> DocumentRefs] :
          db = [FixtureDb EXCEPT !.documents = DocumentTable(f)]
     /\ query \in DocumentRequests
     /\ FixtureEnv
  \/ /\ \E f \in [1..MaxAppointments -> [task : {1, 2}, start : Times, created : Times]] :
          db = [FixtureDb EXCEPT !.appointments = AppointmentTable(f)]
     /\ query = Request(EmailA, Undefined, Undefined)
     /\ FixtureEnv
  \/ /\ \E f \in [1..MaxIntakes -> [task : {1, 2}, t : Times, s : IntakeStates]] :
          db = [FixtureDb EXCEPT !.intakes = IntakeTable(f)]
     /\ query = Request(EmailA, Undefined, Undefined)
     /\ FixtureEnv
  \/ /\ db = FixtureDb
     /\ query \in EnvRequests
     /\ \E v \in AppUrlSettings : APP_URL = Coalesce(v, <<>>)
     /\ \E t \in ServerDays : clock = DateOf(t)

\* no loader has been called on its own
LoadersIdle ==
  /\ keyList = <<>>
  /\ loaded = NullRow

\* the date helpers have not been called
UtilsIdle ==
  /\ dateInput = JsNull
  /\ isoResult = Null
  /\ ageResult = NullNum

\* the grouping step has not been run on its own
GroupingIdle == grouped = NullRow

\* the widget's page is not open
WidgetIdle ==
  /\ settings = NullRow
  /\ metadata = "pending"
  /\ API_URL = Null
  /\ API_KEY = Null
  /\ readyState = "loading"
  /\ listening = FALSE
  /\ widget = "idle"
  /\ requesterRes = Pending
  /\ requestsSent = <<>>
  /\ apiResponse = Pending
  /\ loadingEl = NullRow
  /\ contentEl = Null

\* no call has started
CallIdle ==
  /\ email = Undefined
  /\ phone = Undefined
  /\ limit = NaN
  /\ enforcedLimit = NaN
  /\ patientRecord = NullRow
  /\ tasksResult = <<>>
  /\ doctorById = EmptyMap
  /\ intakeMap = EmptyMap
  /\ appointmentMap = EmptyMap
  /\ sanitizedDocuments = <<>>
  /\ thrown = NoError
  /\ result = Pending
  /\ response = Pending
  /\ queries = <<>>

Init ==
  /\ InitialStore
  /\ pc = "route"
  /\ CallIdle
  /\ documents = <<>>
  /\ buckets = NullRow
  /\ UtilsIdle
  /\ LoadersIdle
  /\ GroupingIdle
  /\ WidgetIdle

Spec == Init /\ [][Next]_vars

\* ------------------------------------------- the classifier on its own

\* buildDocumentBuckets(documents)
Classify ==
  /\ pc = "classify"
  /\ buckets' = buildDocumentBuckets(documents)
  /\ pc' = "classified"
  /\ UNCHANGED <<db, query, documents>>
  /\ UNCHANGED callVars
  /\ UNCHANGED utilsVars
  /\ UNCHANGED loaderVars
  /\ UNCHANGED <<APP_URL, grouped>>
  /\ UNCHANGED widgetVars

Labels ==
  {Placard, ParkingPermit, Prescription, CoverLetter, Envelope, PhysicianCredentials}

\* a label as written, in other casings, and with white space around it
Variants(label) ==
  {label, ToLowerCase(label), ToUpperCase(label), <<" ">> \o label,
   label \o <<"\t", "\n">>, <<" ", " ">> \o ToUpperCase(label) \o <<" ">>}

UnknownThing == <<"U","n","k","n","o","w","n"," ","T","h","i","n","g">>

\* types that match no label: unknown, empty, blank, a label with a letter
\* more, with its inner space doubled or dropped, and no type at all
OtherTypes ==
  {UnknownThing, <<>>, <<" ">>, Placard \o <<"s">>,
   <<"P","a","r","k","i","n","g"," "," ","P","e","r","m","i","t">>,
   <<"P","a","r","k","i","n","g","P","e","r","m","i","t">>,
   <<"P","e","r","m","i","t">>, Null, Undefined}

TypeTexts == UNION {Variants(label) : label \in Labels} \cup OtherTypes

\* the types of the documents after the first one of a list
FollowingTypes ==
  {Placard, ToLowerCase(ParkingPermit), Envelope, UnknownThing, Null}

ClassifierDocument(i, type) ==
  [id |-> i, type |-> type, taskId |-> 1, doctorId |-> NullNum]

\* the lists of up to MaxBucketDocs documents: the first of any type, the
\* following ones of the types above
InitBuckets ==
  /\ db = FixtureDb
  /\ query = Request(Undefined, Undefined, Undefined)
  /\ pc = "classify"
  /\ CallIdle
  /\ \E n \in 0..MaxBucketDocs :
       \E first \in TypeTexts : \E rest \in [2..n -> FollowingTypes] :
         documents = [i \in 1..n |->
                        ClassifierDocument(i, IF i = 1 THEN first ELSE rest[i])]
  /\ buckets = NullRow
  /\ UtilsIdle
  /\ LoadersIdle
  /\ FixtureEnv
  /\ GroupingIdle
  /\ WidgetIdle

NextBuckets == Classify

SpecBuckets == InitBuckets /\ [][NextBuckets]_vars

\* ------------------------------------------- the date helpers on their own

\* toISOString(dateInput)
ToISOString ==
  /\ pc = "utils"
  /\ isoResult' = toISOString(dateInput)
  /\ pc' = "toISOString"
  /\ UNCHANGED <<db, query, documents, buckets, dateInput, clock, ageResult>>
  /\ UNCHANGED callVars
  /\ UNCHANGED loaderVars
  /\ UNCHANGED <<APP_URL, grouped>>
  /\ UNCHANGED widgetVars

\* calculateAge(dateInput) at the time the clock shows
CalculateAge ==
  /\ pc = "utils"
  /\ ageResult' = calculateAge(dateInput, clock)
  /\ pc' = "calculateAge"
  /\ UNCHANGED <<db, query, documents, buckets, dateInput, clock, isoResult>>
  /\ UNCHANGED callVars
  /\ UNCHANGED loaderVars
  /\ UNCHANGED <<APP_URL, grouped>>
  /\ UNCHANGED widgetVars

Day(y, m, d) == [y |-> y, m |-> m, d |-> d]

\* days of birth
BirthDays ==
  {Day(2000, 6, 14), Day(2000, 6, 15), Day(2000, 6, 16), Day(2000, 2, 29),
   Day(2000, 1, 1), Day(2000, 12, 31), Day(1999, 5, 15), Day(1999, 7, 15),
   Day(2023, 6, 15), Day(2024, 6, 15), Day(2024, 6, 16), Day(1970, 1, 1)}

\* days on which the age is asked for
ClockDays ==
  {Day(2024, 6, 14), Day(2024, 6, 15), Day(2024, 6, 16), Day(2024, 1, 1),
   Day(2024, 12, 31), Day(2024, 2, 29), Day(2023, 2, 28), Day(2023, 3, 1)}

\* the text YYYY-MM-DD of a day
DayText(day) ==
  Padded(day.y, 4) \o <<"-">> \o Padded(day.m, 2) \o <<"-">> \o Padded(day.d, 2)

NotADate == <<"n","o","t","-","a","-","d","a","t","e">>

\* arguments that hold no date
NoDateInputs ==
  {JsNull, JsUndefined, JsString(<<>>), JsString(NotADate),
   JsString(<<"a","b","c">>), JsString(<<"2","0","0","0","-","0","6","-","1","x">>),
   InvalidDate, JsNumber(NaN), JsNumber(IntNum(0)), JsBoolean(FALSE)}

\* arguments: every day of birth as a Date and as a text, and no date
DateInputs ==
  {DateOf(DaysFromCivil(day.y, day.m, day.d)) : day \in BirthDays}
  \cup {JsString(DayText(day)) : day \in BirthDays}
  \cup NoDateInputs

InitUtils ==
  /\ db = FixtureDb
  /\ query = Request(Undefined, Undefined, Undefined)
  /\ pc = "utils"
  /\ CallIdle
  /\ documents = <<>>
  /\ buckets = NullRow
  /\ dateInput \in DateInputs
  /\ \E day \in ClockDays : clock = DateOf(DaysFromCivil(day.y, day.m, day.d))
  /\ isoResult = Null
  /\ ageResult = NullNum
  /\ LoadersIdle
  /\ APP_URL = FixtureAppUrl
  /\ GroupingIdle
  /\ WidgetIdle

NextUtils == ToISOString \/ CalculateAge

SpecUtils == InitUtils /\ [][NextUtils]_vars

\* ----------------------------------------------- the loaders on their own

\* getDoctorsByIds(keyList)
LoadDoctors ==
  /\ pc = "loaders"
  /\ loaded' = getDoctorsByIds(db, keyList)
  /\ queries' = queries \o QueryFor("doctors", keyList)
  /\ pc' = "getDoctorsByIds"
  /\ UNCHANGED <<email, phone, limit, enforcedLimit, patientRecord, tasksResult, doctorById,
                 intakeMap, appointmentMap, sanitizedDocuments, thrown, result, response>>
  /\ UNCHANGED <<db, query, documents, buckets, keyList>>
  /\ UNCHANGED utilsVars
  /\ UNCHANGED <<APP_URL, grouped>>
  /\ UNCHANGED widgetVars

\* getLatestIntakesByTaskIds(keyList)
LoadIntakes ==
  /\ pc = "loaders"
  /\ loaded' \in getLatestIntakesByTaskIds(db, keyList)
  /\ queries' = queries \o QueryFor("patient_intake_forms", keyList)
  /\ pc' = "getLatestIntakesByTaskIds"
  /\ UNCHANGED <<email, phone, limit, enforcedLimit, patientRecord, tasksResult, doctorById,
                 intakeMap, appointmentMap, sanitizedDocuments, thrown, result, response>>
  /\ UNCHANGED <<db, query, documents, buckets, keyList>>
  /\ UNCHANGED utilsVars
  /\ UNCHANGED <<APP_URL, grouped>>
  /\ UNCHANGED widgetVars

\* getLatestAppointmentsByTaskIds(keyList)
LoadAppointments ==
  /\ pc = "loaders"
  /\ loaded' \in getLatestAppointmentsByTaskIds(db, keyList)
  /\ queries' = queries \o QueryFor("appointments", keyList)
  /\ pc' = "getLatestAppointmentsByTaskIds"
  /\ UNCHANGED <<email, phone, limit, enforcedLimit, patientRecord, tasksResult, doctorById,
                 intakeMap, appointmentMap, sanitizedDocuments, thrown, result, response>>
  /\ UNCHANGED <<db, query, documents, buckets, keyList>>
  /\ UNCHANGED utilsVars
  /\ UNCHANGED <<APP_URL, grouped>>
  /\ UNCHANGED widgetVars

\* key lists: empty, one key, several keys, keys without rows
KeyLists == {<<>>, <<1>>, <<2>>, <<1, 2>>, <<2, 1>>, <<3>>, <<1, 1>>}

InitLoaders ==
  /\ db = FixtureDb
  /\ query = Request(Undefined, Undefined, Undefined)
  /\ pc = "loaders"
  /\ CallIdle
  /\ documents = <<>>
  /\ buckets = NullRow
  /\ UtilsIdle
  /\ keyList \in KeyLists
  /\ loaded = NullRow
  /\ FixtureEnv
  /\ GroupingIdle
  /\ WidgetIdle

\* the loaders called on their own, and as the aggregation calls them
InitLoadersOrCall == InitLoaders \/ Init

NextLoadersOrCall == LoadDoctors \/ LoadIntakes \/ LoadAppointments \/ Next

SpecLoaders == InitLoadersOrCall /\ [][NextLoadersOrCall]_vars

\* ------------------------------------------ the grouping step on its own

\* sanitizedDocuments.reduce(...) over the list documents, with keyList as
\* the ids of the retrieved tasks
Group ==
  /\ pc = "grouping"
  /\ grouped' = DocumentsByTask(documents, keyList)
  /\ pc' = "grouped"
  /\ UNCHANGED <<db, query, documents, buckets, APP_URL>>
  /\ UNCHANGED callVars
  /\ UNCHANGED utilsVars
  /\ UNCHANGED loaderVars
  /\ UNCHANGED widgetVars

\* ids of retrieved tasks, newest task first
RetrievedTaskIds == {<<1>>, <<2>>, <<3>>, <<1, 2>>, <<2, 1>>, <<3, 1, 2>>}

\* what the task id of a loaded document may be
DocumentTaskIds == {1, 2, 3, NullNum}

GroupingDocument(i, taskId) ==
  [id |-> i, type |-> DocumentTypeOf(i), taskId |-> taskId, doctorId |-> NullNum]

\* the lists of up to MaxBucketDocs loaded documents, each of a task or of
\* none, and a non-empty list of task ids
InitGrouping ==
  /\ db = FixtureDb
  /\ query = Request(Undefined, Undefined, Undefined)
  /\ pc = "grouping"
  /\ CallIdle
  /\ \E n \in 0..MaxBucketDocs : \E f \in [1..n -> DocumentTaskIds] :
       documents = [i \in 1..n |-> GroupingDocument(i, f[i])]
  /\ buckets = NullRow
  /\ UtilsIdle
  /\ keyList \in RetrievedTaskIds
  /\ loaded = NullRow
  /\ FixtureEnv
  /\ GroupingIdle
  /\ WidgetIdle

NextGrouping == Group

SpecGrouping == InitGrouping /\ [][NextGrouping]_vars

\* -------------------------------------------------- the widget (app.js)

\* a settled promise
Resolved(value) == [ok |-> TRUE, value |-> value]

Rejected(message) == [ok |-> FALSE, message |-> message]

\* the element #loading after showLoading(text)
showLoading(text) == [display |-> "block", error |-> FALSE, text |-> text]

\* the element #loading after showError(err): err?.message ?? err in red
showError(message) == [display |-> "block", error |-> TRUE, text |-> message]

\* the test of init that lets every requester through
NoContactNever(requester) == FALSE

\* !email && !phone
NoContact(requester) == ~Truthy(requester.email) /\ ~Truthy(requester.phone)

\* requesterRes?.['ticket.requester'] ?? {}
RequesterOf(res) ==
  IF res = NullRow \/ res.requester = NullRow
    THEN [email |-> Undefined, phone |-> Undefined]
    ELSE res.requester

\* init() up to its first await: showLoading and client.get('ticket.requester')
InitStarted ==
  /\ loadingEl' = showLoading("Fetching patient info...")
  /\ widget' = "requester"

\* the callback of client.metadata().then: the globals are set, and init is
\* called or registered for DOMContentLoaded
MetadataResolved ==
  /\ pc = "widget"
  /\ metadata = "pending"
  /\ metadata' = "resolved"
  /\ API_URL' = settings.API_URL
  /\ API_KEY' = settings.X_KEY
  /\ IF readyState \in {"complete", "interactive"}
       THEN InitStarted /\ UNCHANGED listening
       ELSE listening' = TRUE /\ UNCHANGED <<loadingEl, widget>>
  /\ UNCHANGED <<settings, readyState, requesterRes, requestsSent, apiResponse, contentEl>>

\* client.metadata() rejects: no callback runs
MetadataRejected ==
  /\ pc = "widget"
  /\ metadata = "pending"
  /\ metadata' = "rejected"
  /\ UNCHANGED <<settings, API_URL, API_KEY, readyState, listening, widget, requesterRes,
                 requestsSent, apiResponse, loadingEl, contentEl>>

\* the document is parsed: readyState becomes interactive and
\* DOMContentLoaded is dispatched to its listeners
DOMContentLoaded ==
  /\ pc = "widget"
  /\ readyState = "loading"
  /\ readyState' = "interactive"
  /\ IF listening THEN InitStarted ELSE UNCHANGED <<loadingEl, widget>>
  /\ UNCHANGED <<settings, metadata, API_URL, API_KEY, listening, requesterRes,
                 requestsSent, apiResponse, contentEl>>

\* the page and its resources are loaded
PageLoaded ==
  /\ pc = "widget"
  /\ readyState = "interactive"
  /\ readyState' = "complete"
  /\ UNCHANGED <<settings, metadata, API_URL, API_KEY, listening, widget, requesterRes,
                 requestsSent, apiResponse, loadingEl, contentEl>>

\* what client.get('ticket.requester') may resolve to
RequesterAnswers ==
  {NullRow, [requester |-> NullRow]}
  \cup {[requester |-> [email |-> e, phone |-> p]] :
          e \in {Undefined, Null, <<>>, EmailA}, p \in {Undefined, Null, <<>>, Phone5}}

\* client.get resolves: init goes on to the check of email and phone and,
\* with one of them, to fetchHtml, which calls client.request
RequesterResolved ==
  /\ pc = "widget"
  /\ widget = "requester"
  /\ \E res \in RequesterAnswers :
       /\ requesterRes' = Resolved(res)
       /\ IF NoContact(RequesterOf(res))
            THEN /\ loadingEl' = showError("Requester has no email or phone")
                 /\ widget' = "done"
                 /\ UNCHANGED requestsSent
            ELSE /\ requestsSent' =
                      Append(requestsSent,
                             [url |-> API_URL, type |-> "GET", key |-> API_KEY,
                              email |-> RequesterOf(res).email,
                              phone |-> RequesterOf(res).phone])
                 /\ widget' = "request"
                 /\ UNCHANGED loadingEl
  /\ UNCHANGED <<settings, metadata, API_URL, API_KEY, readyState, listening, apiResponse,
                 contentEl>>

WidgetErrors == {"Network error"}

\* client.get rejects: the catch block of init shows the error
RequesterRejected ==
  /\ pc = "widget"
  /\ widget = "requester"
  /\ \E message \in WidgetErrors :
       /\ requesterRes' = Rejected(message)
       /\ loadingEl' = showError(message)
  /\ widget' = "done"
  /\ UNCHANGED <<settings, metadata, API_URL, API_KEY, readyState, listening, requestsSent,
                 apiResponse, contentEl>>

\* what the server may answer: a page, or nothing
ApiAnswers == {Text("<div>case view</div>"), <<>>, Null, Undefined}

\* client.request resolves: fetchHtml throws on a falsy response, else init
\* renders it
RequestResolved ==
  /\ pc = "widget"
  /\ widget = "request"
  /\ \E html \in ApiAnswers :
       /\ apiResponse' = Resolved(html)
       /\ IF ~Truthy(html)
            THEN /\ loadingEl' = showError("Empty response from server")
                 /\ UNCHANGED contentEl
            ELSE /\ loadingEl' = [loadingEl EXCEPT !.display = "none"]
                 /\ contentEl' = html
  /\ widget' = "done"
  /\ UNCHANGED <<settings, metadata, API_URL, API_KEY, readyState, listening, requesterRes,
                 requestsSent>>

\* client.request rejects: the catch block of init shows the error
RequestRejected ==
  /\ pc = "widget"
  /\ widget = "request"
  /\ \E message \in WidgetErrors :
       /\ apiResponse' = Rejected(message)
       /\ loadingEl' = showError(message)
  /\ widget' = "done"
  /\ UNCHANGED <<settings, metadata, API_URL, API_KEY, readyState, listening, requesterRes,
                 requestsSent, contentEl>>

\* the settings of the installed app
WidgetSettings ==
  {[API_URL |-> Text("https://care/api/extension/task-details"), X_KEY |-> Text("a2V5")],
   [API_URL |-> Text("https://dev-care/api/extension/task-details"), X_KEY |-> Text("ZGV2")]}

\* the page when app.js starts to run: still loading or already parsed,
\* the metadata requested, both elements as the page has them
InitWidget ==
  /\ db = FixtureDb
  /\ query = Request(Undefined, Undefined, Undefined)
  /\ pc = "widget"
  /\ CallIdle
  /\ documents = <<>>
  /\ buckets = NullRow
  /\ UtilsIdle
  /\ LoadersIdle
  /\ FixtureEnv
  /\ GroupingIdle
  /\ settings \in WidgetSettings
  /\ metadata = "pending"
  /\ API_URL = Null
  /\ API_KEY = Null
  /\ readyState \in {"loading", "interactive", "complete"}
  /\ listening = FALSE
  /\ widget = "idle"
  /\ requesterRes = Pending
  /\ requestsSent = <<>>
  /\ apiResponse = Pending
  /\ loadingEl = [display |-> "block", error |-> FALSE, text |-> ""]
  /\ contentEl = Null

\* what the widget leaves untouched
WidgetFrame ==
  /\ UNCHANGED <<db, query, pc, documents, buckets, APP_URL, grouped>>
  /\ UNCHANGED callVars
  /\ UNCHANGED utilsVars
  /\ UNCHANGED loaderVars

NextWidget ==
  \/ MetadataResolved /\ WidgetFrame
  \/ MetadataRejected /\ WidgetFrame
  \/ DOMContentLoaded /\ WidgetFrame
  \/ PageLoaded /\ WidgetFrame
  \/ RequesterResolved /\ WidgetFrame
  \/ RequesterRejected /\ WidgetFrame
  \/ RequestResolved /\ WidgetFrame
  \/ RequestRejected /\ WidgetFrame

SpecWidget == InitWidget /\ [][NextWidget]_vars

\* ------------------------------------------------------------- the claims

\* the call has returned (to the route, which may have answered)
Returned == pc \in {"return", "responded"}

Succeeded == Returned /\ result.success

\* C1: a call with neither email nor phone (absent or empty) returns
\* {success:false, status:400} and no store query has been issued.
C1_NoIdentifierIs400WithoutQuery ==
  (pc \notin {"route", "entry"} /\ ~Truthy(email) /\ ~Truthy(phone)) =>
    /\ Returned
    /\ result.success = FALSE
    /\ result.status = 400
    /\ queries = <<>>

C1_Witness ==
  /\ pc = "return"
  /\ email = <<>>
  /\ phone = Undefined
  /\ result.success = FALSE
  /\ result.status = 400

\* the resolver ran and found no patient
ResolverFoundNone ==
  /\ Returned
  /\ thrown = NoError
  /\ Truthy(email) \/ Truthy(phone)
  /\ patientRecord = NullRow

\* C2: when the resolver finds no patient the call returns
\* {success:false, status:404} and neither the task retriever nor any
\* side-loader has queried the store.
C2_NoPatientIs404WithoutLoaders ==
  ResolverFoundNone =>
    /\ result.success = FALSE
    /\ result.status = 404
    /\ Range(queries) \subseteq {"patients"}

C2_Witness ==
  /\ ResolverFoundNone
  /\ queries = <<"patients">>
  /\ result.status = 404

\* the retriever ran for a resolved patient and returned no task
RetrieverFoundNone ==
  /\ Returned
  /\ thrown = NoError
  /\ patientRecord # NullRow
  /\ tasksResult = <<>>

\* C3: when the patient is resolved and the retriever returns no task the
\* call returns {success:false, status:404}, not a success, and no doctor,
\* intake, appointment or document query has been issued.
C3_NoTasksIs404WithoutLoaders ==
  RetrieverFoundNone =>
    /\ result.success = FALSE
    /\ result.status = 404
    /\ queries = <<"patients", "tasks">>

C3_Witness ==
  /\ RetrieverFoundNone
  /\ patientRecord.id = 3
  /\ queries = <<"patients", "tasks">>
  /\ result.status = 404

\* C4: when the resolver, the retriever or a side-loader throws, the call
\* returns {success:false, status:500} whose error is the fixed generic
\* message, with nothing of the thrown error in it.
C4_ThrownIsGeneric500 ==
  (Returned /\ thrown # NoError) =>
    /\ result = [success |-> FALSE, error |-> "Unexpected server error", status |-> 500]
    /\ result.error # thrown

C4_Witness ==
  /\ Returned
  /\ thrown # NoError
  /\ queries = <<"patients", "tasks", "doctors", "patient_intake_forms">>
  /\ result.status = 500

\* the queries of a call in which every step completed
AllQueries(tasks) ==
  <<"patients", "tasks">>
  \o (IF DoctorIds(tasks) = <<>> THEN <<>> ELSE <<"doctors">>)
  \o <<"patient_intake_forms", "appointments", "documents">>

\* C5: a success is returned only if the resolver, the retriever and all
\* four side-fetches completed without error; when any of them failed the
\* result is a failure that carries no patient or task data.
C5_NoPartialSuccess ==
  /\ Succeeded => (thrown = NoError /\ queries = AllQueries(tasksResult))
  /\ (Returned /\ thrown # NoError) =>
       (result.success = FALSE /\ DOMAIN result = {"success", "error", "status"})

C5_Witness ==
  /\ Returned
  /\ thrown # NoError
  /\ queries = AllQueries(tasksResult)
  /\ doctorById # EmptyMap
  /\ intakeMap # EmptyMap
  /\ appointmentMap # EmptyMap
  /\ result.success = FALSE

\* C6: the value clampLimit hands to the task retriever is an integer in
\* [1,25] for every limit, and a NaN limit clamps to 1.
C6_ClampedLimitIsIntegerIn1To25 ==
  pc \in {"findPatient", "getTasks"} =>
    /\ IsInteger(enforcedLimit)
    /\ enforcedLimit.v >= 10 * MIN_LIMIT
    /\ enforcedLimit.v <= 10 * MAX_LIMIT
    /\ IsNaN(limit) => enforcedLimit = IntNum(1)

\* the tasks of the resolved patient in the store
PatientTasks == {t \in db.tasks : t.patientId = patientRecord.id}

StoredTask(id) == CHOOSE t \in db.tasks : t.id = id

Min(a, b) == IF a < b THEN a ELSE b

\* C7: the tasks of a success result are exactly the min(n, L) most
\* recently created tasks of the resolved patient, newest first, and none
\* of another patient.
C7_NewestTasksUpToLimit ==
  Succeeded =>
    LET views == result.data.tasks
        shown == {views[i].taskId : i \in 1..Len(views)}
    IN /\ IsInteger(enforcedLimit)
       /\ Len(views) = Min(Cardinality(PatientTasks), enforcedLimit.v \div 10)
       /\ Cardinality(shown) = Len(views)
       /\ shown \subseteq {t.id : t \in PatientTasks}
       /\ \A i, j \in 1..Len(views) :
            i < j => StoredTask(views[i].taskId).createdAt
                       >= StoredTask(views[j].taskId).createdAt
       /\ \A t \in PatientTasks : \A i \in 1..Len(views) :
            t.id \notin shown => t.createdAt <= StoredTask(views[i].taskId).createdAt

C7_Witness ==
  /\ Succeeded
  /\ Cardinality(PatientTasks) = 3
  /\ Cardinality(db.tasks) > 3 \/ Cardinality({t.createdAt : t \in PatientTasks}) > 1
  /\ enforcedLimit = IntNum(2)
  /\ Len(result.data.tasks) = 2
  /\ StoredTask(result.data.tasks[1].taskId).createdAt
       > StoredTask(result.data.tasks[2].taskId).createdAt

\* every document listed in any bucket of any task view
SurfacedDocuments ==
  UNION {UNION {Range(result.data.tasks[i].documents[key]) : key \in AllBucketKeys} :
         i \in 1..Len(result.data.tasks)}

StoredDocument(id) == CHOOSE d \in db.documents : d.id = id

\* C8: every document in a success result belongs to the resolved patient
\* and to one of the retrieved tasks, whatever the document store holds.
C8_NoCrossPatientDocument ==
  Succeeded =>
    \A doc \in SurfacedDocuments :
      /\ StoredDocument(doc.id).patientId = patientRecord.id
      /\ StoredDocument(doc.id).taskId \in Range(TaskIds(tasksResult))

C8_Witness ==
  /\ Succeeded
  /\ SurfacedDocuments # {}
  /\ \E d \in db.documents :
       /\ d.patientId # patientRecord.id
       /\ d.taskId \in Range(TaskIds(tasksResult))
       /\ d.doctorId \in Range(DoctorIds(tasksResult))

\* the bucket a type belongs to, from the label table written in lower case
ExpectedBucket(type) ==
  LET t == IF type = Null \/ type = Undefined THEN <<>> ELSE Trim(ToLowerCase(type))
  IN CASE t = <<"p","l","a","c","a","r","d">> -> "permit"
       [] t = <<"p","a","r","k","i","n","g"," ","p","e","r","m","i","t">> -> "permit"
       [] t = <<"p","r","e","s","c","r","i","p","t","i","o","n">> -> "prescription"
       [] t = <<"c","o","v","e","r"," ","l","e","t","t","e","r">> -> "coverLetter"
       [] t = <<"e","n","v","e","l","o","p","e">> -> "envelope"
       [] t = <<"p","h","y","s","i","c","i","a","n"," ","c","r","e","d","e","n","t","i","a","l","s">>
            -> "physicianCertificate"
       [] OTHER -> "other"

\* C9: buildDocumentBuckets puts a document in the bucket whose label its
\* type equals after lower-casing and trimming, and in other when no label
\* matches or the type is empty, null or missing.
C9_BucketByNormalizedType ==
  pc = "classified" =>
    \A i \in 1..Len(documents) : \A key \in AllBucketKeys :
      (documents[i] \in Range(buckets[key])) <=> (key = ExpectedBucket(documents[i].type))

C9_Witness ==
  /\ pc = "classified"
  /\ \E i, j \in 1..Len(documents) :
       /\ documents[i].type = <<" ", " ">> \o ToUpperCase(ParkingPermit) \o <<" ">>
       /\ documents[i] \in Range(buckets.permit)
       /\ documents[j].type = Null
       /\ documents[j] \in Range(buckets.other)

IntakeRowsOf(taskId) == {r \in db.intakes : r.taskId = taskId}

\* the rows of a task that no other row of the task is newer than
NewestIntakeRowsOf(taskId) ==
  {r \in IntakeRowsOf(taskId) : \A q \in IntakeRowsOf(taskId) : q.createdAt <= r.createdAt}

IntakesLoaded == pc \in {"getAppointments", "getDocuments", "join"} \/ Succeeded

\* C10: getLatestIntakesByTaskIds maps every requested task id that has
\* intake rows to a row of greatest creation time among them, and gives no
\* entry to a task id without rows; the intake shown in the task view has
\* the fields of that row only.
C10_LatestIntakeWins ==
  /\ IntakesLoaded =>
       \A k \in Range(TaskIds(tasksResult)) :
         IF IntakeRowsOf(k) = {} THEN k \notin DOMAIN intakeMap
         ELSE /\ k \in DOMAIN intakeMap
              /\ \E r \in NewestIntakeRowsOf(k) :
                   intakeMap[k] = [task_id |-> k, status |-> r.status,
                                   last_step |-> r.lastStep, tag |-> r.tag,
                                   completed_at |-> r.completedAt,
                                   created_at |-> r.createdAt]
  /\ Succeeded =>
       \A i \in 1..Len(result.data.tasks) :
         LET view == result.data.tasks[i] IN
         IF IntakeRowsOf(view.taskId) = {}
           THEN view.intake.submitted = FALSE /\ view.intake.lastStep = Null
           ELSE \E r \in NewestIntakeRowsOf(view.taskId) :
                  /\ view.intake.submitted
                  /\ view.intake.lastStep = r.lastStep
                  /\ view.intake.createdAt = IsoText(r.createdAt)
                  /\ view.intake.isCompleted = (r.completedAt # NullNum)

C10_Witness ==
  /\ Succeeded
  /\ \E i \in 1..Len(result.data.tasks) : \E old, new \in db.intakes :
       /\ old.taskId = result.data.tasks[i].taskId
       /\ new.taskId = result.data.tasks[i].taskId
       /\ old.createdAt < new.createdAt
       /\ old.id < new.id
       /\ result.data.tasks[i].intake.lastStep = new.lastStep
  /\ \E i \in 1..Len(result.data.tasks) : ~result.data.tasks[i].intake.submitted

\* ---------------------------------------------------------------- C11

\* the returned task views whose task refers to a doctor that has no row
DanglingDoctorViews ==
  {i \in 1..Len(result.data.tasks) :
     /\ result.data.tasks[i].doctorId # NullNum
     /\ \A d \in db.doctors : d.id # result.data.tasks[i].doctorId}

\* C11: in a success result, the doctor sub-object of a task whose doctorId
\* references no stored doctor has every field null, the id included.
C11_DanglingDoctorAllNull ==
  (Returned /\ Succeeded) =>
    \A i \in DanglingDoctorViews :
      /\ result.data.tasks[i].doctor.id = NullNum
      /\ \A field \in doctorInfoFields : result.data.tasks[i].doctor[field] = Null

\* ---------------------------------------------------------------- C12

\* the argument holds the day of birth b, as a Date or as a text
HoldsDay(b) ==
  \/ dateInput = DateOf(DaysFromCivil(b.y, b.m, b.d))
  \/ dateInput = JsString(DayText(b))

ClockShows(t) == clock = DateOf(DaysFromCivil(t.y, t.m, t.d))

\* the day t comes earlier in its year than the birthday of b
BeforeBirthday(t, b) == t.m < b.m \/ (t.m = b.m /\ t.d < b.d)

\* C12: calculateAge gives the difference of the UTC years, less one exactly
\* when today's month/day is earlier in the year than the month/day of
\* birth (not on the birthday itself), and null when dob holds no date.
C12_AgeByBirthdayRule ==
  pc = "calculateAge" =>
    /\ \A b \in BirthDays, t \in ClockDays :
         (HoldsDay(b) /\ ClockShows(t)) =>
           ageResult = (t.y - b.y) - (IF BeforeBirthday(t, b) THEN 1 ELSE 0)
    /\ dateInput \in NoDateInputs => ageResult = NullNum

\* now = 2024-06-15: the text 2000-06-15 gives 24
C12_Witness ==
  /\ pc = "calculateAge"
  /\ ClockShows(Day(2024, 6, 15))
  /\ dateInput = JsString(DayText(Day(2000, 6, 15)))
  /\ ageResult = 24

\* ---------------------------------------------------------------- C13

\* C13: toISOString never throws; it gives the ISO-8601 text of the day for
\* an argument that holds a valid date and null for every other argument.
C13_IsoTextOrNull ==
  pc = "toISOString" =>
    /\ isoResult # RangeError
    /\ \A b \in BirthDays :
         HoldsDay(b) =>
           isoResult = DayText(b) \o <<"T","0","0",":","0","0",":","0","0",".","0","0","0","Z">>
    /\ dateInput \in NoDateInputs => isoResult = Null

\* an invalid date text and an Invalid Date object have given null
C13_Witness ==
  /\ pc = "toISOString"
  /\ dateInput \in {JsString(NotADate), InvalidDate}
  /\ isoResult = Null

\* ---------------------------------------------------------------- C14

\* C14: the aggregation is read-only: no step of a call, whatever its
\* outcome (success, 400, 404, 500), changes a stored patient, task,
\* doctor, intake, appointment or document record.
C14_StoreUnchanged == [][db' = db]_vars

\* a call that issued all six queries and succeeded
C14_Witness ==
  /\ Succeeded
  /\ queries = <<"patients", "tasks", "doctors", "patient_intake_forms", "appointments", "documents">>
  /\ db.tasks # {}

\* ---------------------------------------------------------------- C15

\* an identifier after trimming, the empty text when it is absent
Trimmed(v) == IF v = Null \/ v = Undefined THEN <<>> ELSE Trim(v)

\* the patients the claim has the resolver consider
ConsideredPatients ==
  {r \in db.patients :
     \/ Trimmed(email) # <<>> /\ r.email = Trimmed(email)
     \/ Trimmed(phone) # <<>> /\ r.phone = Trimmed(phone)}

\* findPatientByContact has answered
ResolverAnswered ==
  /\ pc \notin {"route", "entry", "findPatient"}
  /\ Truthy(email) \/ Truthy(phone)
  /\ ~(thrown # NoError /\ Len(queries) <= 1)

\* C15: findPatientByContact considers the patients whose email equals the
\* trimmed email or whose phone equals the trimmed phone (only the field
\* that is non-empty when one is), returns one of latest creation time among
\* them, and null when there is none.
C15_LatestMatchByEmailOrPhone ==
  ResolverAnswered =>
    IF ConsideredPatients = {} THEN patientRecord = NullRow
    ELSE /\ patientRecord \in ConsideredPatients
         /\ \A r \in ConsideredPatients : r.createdAt <= patientRecord.createdAt

\* both identifiers given; the patient returned matches the phone only and
\* is newer than the one matching the email
C15_Witness ==
  /\ ResolverAnswered
  /\ email = EmailA /\ phone = Phone5
  /\ patientRecord # NullRow
  /\ patientRecord.email # EmailA
  /\ \E r \in db.patients : r.email = EmailA /\ r.createdAt < patientRecord.createdAt

\* ---------------------------------------------------------------- C16

AppointmentRowsOf(taskId) == {r \in db.appointments : r.taskId = taskId}

\* the rows of a task that no other row of the task starts later than
LatestStartRowsOf(taskId) ==
  {r \in AppointmentRowsOf(taskId) :
     \A q \in AppointmentRowsOf(taskId) : q.startAt <= r.startAt}

AppointmentsLoaded == pc \in {"getDocuments", "join"} \/ Succeeded

\* C16: getLatestAppointmentsByTaskIds maps every requested task id that
\* has appointment rows to a row of greatest start time among them (not of
\* greatest creation time); the task view's appointment and
\* appointmentStartTime come from that row, and a task without appointment
\* rows gets appointment null.
C16_LatestAppointmentByStart ==
  /\ AppointmentsLoaded =>
       \A k \in Range(TaskIds(tasksResult)) :
         IF AppointmentRowsOf(k) = {} THEN k \notin DOMAIN appointmentMap
         ELSE /\ k \in DOMAIN appointmentMap
              /\ \E r \in LatestStartRowsOf(k) :
                   appointmentMap[k] = [id |-> r.id, task_id |-> k,
                                        start_at |-> r.startAt, end_at |-> r.endAt,
                                        status |-> r.status, link |-> r.link]
  /\ Succeeded =>
       \A i \in 1..Len(result.data.tasks) :
         LET view == result.data.tasks[i] IN
         IF AppointmentRowsOf(view.taskId) = {}
           THEN view.appointment = NullRow /\ view.appointmentStartTime = Null
           ELSE \E r \in LatestStartRowsOf(view.taskId) :
                  /\ view.appointment.startAt = IsoText(r.startAt)
                  /\ view.appointment.endAt = IsoText(r.endAt)
                  /\ view.appointment.status = r.status
                  /\ view.appointment.link = r.link
                  /\ view.appointmentStartTime = IsoText(r.startAt)

\* the appointment shown starts later but was created earlier than another
\* appointment of the task; another task has no appointment
C16_Witness ==
  /\ Succeeded
  /\ \E i \in 1..Len(result.data.tasks) : \E other, shown \in db.appointments :
       /\ other.taskId = result.data.tasks[i].taskId
       /\ shown.taskId = result.data.tasks[i].taskId
       /\ other.startAt < shown.startAt
       /\ other.createdAt > shown.createdAt
       /\ result.data.tasks[i].appointment # NullRow
       /\ result.data.tasks[i].appointment.link = shown.link
  /\ \E i \in 1..Len(result.data.tasks) : result.data.tasks[i].appointment = NullRow

\* ---------------------------------------------------------------- C17

LoaderReturned ==
  pc \in {"getDoctorsByIds", "getLatestIntakesByTaskIds", "getLatestAppointmentsByTaskIds"}

\* C17: getDoctorsByIds, getLatestIntakesByTaskIds and
\* getLatestAppointmentsByTaskIds called with an empty key list return an
\* empty mapping and issue no store query; when no retrieved task has a
\* doctor, the aggregation never queries the doctors table.
C17_EmptyKeysIssueNoQuery ==
  /\ (LoaderReturned /\ keyList = <<>>) => (loaded = EmptyMap /\ queries = <<>>)
  /\ (tasksResult # <<>>
        /\ \A i \in 1..Len(tasksResult) : tasksResult[i].doctorId = NullNum) =>
       "doctors" \notin Range(queries)

\* the intake loader has returned from a call with no key
C17_Witness ==
  /\ pc = "getLatestIntakesByTaskIds"
  /\ keyList = <<>>
  /\ loaded = EmptyMap
  /\ queries = <<>>

\* ---------------------------------------------------------------- C18

\* label tables in which a label stands in two buckets: Envelope also
\* under permit, Placard also under envelope
SharedLabelTables ==
  {[DOCUMENT_CATEGORY_TYPES EXCEPT !.permit = Append(@, Envelope)],
   [DOCUMENT_CATEGORY_TYPES EXCEPT !.envelope = Append(@, Placard)]}

\* the positions in the input list of the documents of a bucket
PositionsOf(bucket) ==
  [j \in 1..Len(bucket) |-> CHOOSE i \in 1..Len(documents) : documents[i] = bucket[j]]

\* C18: buildDocumentBuckets is a partition of its input: every document
\* is in exactly one of the six buckets, the bucket sizes sum to the input
\* length, each bucket keeps the input order; no label of the table is in
\* two buckets after lower-casing and trimming, and with a label in two
\* buckets the first-declared bucket would take the document.
C18_BucketsPartitionInput ==
  /\ pc = "classified" =>
       /\ \A i \in 1..Len(documents) :
            Cardinality({key \in AllBucketKeys : documents[i] \in Range(buckets[key])}) = 1
       /\ Len(buckets.permit) + Len(buckets.prescription) + Len(buckets.coverLetter)
            + Len(buckets.envelope) + Len(buckets.physicianCertificate)
            + Len(buckets.other) = Len(documents)
       /\ \A key \in AllBucketKeys :
            /\ Range(buckets[key]) \subseteq Range(documents)
            /\ \A j \in 1..(Len(buckets[key]) - 1) :
                 PositionsOf(buckets[key])[j] < PositionsOf(buckets[key])[j + 1]
  /\ \A k1, k2 \in Range(bucketKeys) :
       k1 # k2 => NormalizedCandidates[k1] \cap NormalizedCandidates[k2] = {}
  /\ \A table \in SharedLabelTables :
       /\ FirstKey(NormalizedCandidatesOf(table), NormalizedType(Envelope))
            = (IF Len(table.permit) = 3 THEN "permit" ELSE "envelope")
       /\ FirstKey(NormalizedCandidatesOf(table), NormalizedType(Placard)) = "permit"

\* a full list whose first two documents went to the same bucket, in order
C18_Witness ==
  /\ pc = "classified"
  /\ Len(documents) = MaxBucketDocs
  /\ Len(buckets.permit) >= 2
  /\ buckets.permit[1] = documents[1]
  /\ buckets.permit[2] = documents[2]

\* ---------------------------------------------------------------- C19

\* the status the claim derives from an intake row
DerivedStatus(r) ==
  IF r.status # Null /\ r.status # Undefined THEN r.status
  ELSE IF r.completedAt # NullNum THEN <<"completed">>
  ELSE <<"pending">>

\* C19: intakeStatus and intake.status of a task view are the explicit
\* status of the task's latest intake row when it has one, else completed
\* when the row has a completion timestamp, else pending; they are null
\* exactly when the task has no intake row, and then submitted is false.
C19_IntakeStatusDerivation ==
  Succeeded =>
    \A i \in 1..Len(result.data.tasks) :
      LET view == result.data.tasks[i] IN
      /\ view.intake.status = view.intakeStatus
      /\ (view.intakeStatus = Null) <=> (IntakeRowsOf(view.taskId) = {})
      /\ IF IntakeRowsOf(view.taskId) = {}
           THEN ~view.intake.submitted
           ELSE \E r \in NewestIntakeRowsOf(view.taskId) :
                  /\ view.intake.lastStep = r.lastStep
                  /\ view.intake.submitted
                  /\ view.intakeStatus = DerivedStatus(r)

\* one task shows the explicit status of a row that has a completion
\* timestamp, another task has no intake row
C19_Witness ==
  /\ Succeeded
  /\ \E i \in 1..Len(result.data.tasks) :
       /\ result.data.tasks[i].intakeStatus = <<"in_review">>
       /\ result.data.tasks[i].intake.isCompleted
  /\ \E i \in 1..Len(result.data.tasks) :
       /\ result.data.tasks[i].intakeStatus = Null
       /\ ~result.data.tasks[i].intake.submitted

\* ---------------------------------------------------------------- C20

SideFetches == {"doctors", "intakes", "appointments", "documents"}

\* the side-fetches whose awaited call has completed: each
\* "const x = await f(...)" completes before the next statement runs
CompletedSideFetches ==
  CASE pc = "getIntakes" -> {"doctors"}
    [] pc = "getAppointments" -> {"doctors", "intakes"}
    [] pc = "getDocuments" -> {"doctors", "intakes", "appointments"}
    [] pc = "join" \/ Succeeded -> SideFetches
    [] OTHER -> {}

\* the side-fetches whose call has been made: a call is made by the
\* statement that awaits it, so none is in flight between two statements
StartedSideFetches == CompletedSideFetches

\* C20: the four side-fetches are issued concurrently: when one of them
\* has completed all four have been started, and the join starts only
\* after all four completed.
C20_SideFetchesConcurrent ==
  /\ CompletedSideFetches # {} => StartedSideFetches = SideFetches
  /\ pc = "join" => CompletedSideFetches = SideFetches

\* ---------------------------------------------------------------- C21

\* C21: a success result has exactly one task view per retrieved task, in
\* the retriever's order: as many views as retrieved tasks, the i-th view
\* being of the i-th retrieved task, whatever doctor, intake, appointment
\* or document records exist or are missing.
C21_OneViewPerTaskInOrder ==
  Succeeded =>
    /\ Len(result.data.tasks) = Len(tasksResult)
    /\ \A i \in 1..Len(tasksResult) : result.data.tasks[i].taskId = tasksResult[i].id

\* several tasks, among them one whose doctor has no row and one without
\* doctor, intake and appointment
C21_Witness ==
  /\ Succeeded
  /\ Len(result.data.tasks) >= 3
  /\ \E i \in DanglingDoctorViews : TRUE
  /\ \E i \in 1..Len(result.data.tasks) :
       /\ result.data.tasks[i].doctorId = NullNum
       /\ ~result.data.tasks[i].intake.submitted
       /\ result.data.tasks[i].appointment = NullRow

\* ---------------------------------------------------------------- C22

\* the doctors the retrieved tasks refer to
ReferredDoctors == {tasksResult[i].doctorId : i \in 1..Len(tasksResult)} \ {NullNum}

DocumentsLoaded == pc = "join" \/ Succeeded

GroupedUnder(taskId) == IF taskId \in DOMAIN grouped THEN grouped[taskId] ELSE <<>>

\* the documents in the buckets built for a task id
BucketedUnder(taskId) ==
  UNION {Range(buildDocumentBuckets(GroupedUnder(taskId))[key]) : key \in AllBucketKeys}

\* C23: the grouping step puts a loaded document without task id under the
\* first of the retrieved task ids, where it is in that task's buckets, and
\* a document with a task id under exactly that task id.
C23_MissingTaskIdGoesToFirstTask ==
  pc = "grouped" =>
    \A i \in 1..Len(documents) :
      LET doc == documents[i]
          target == IF doc.taskId = NullNum THEN keyList[1] ELSE doc.taskId
      IN /\ doc \in Range(GroupedUnder(target))
         /\ \A taskId \in DOMAIN grouped \ {target} : doc \notin Range(grouped[taskId])
         /\ doc.taskId = NullNum => doc \in BucketedUnder(keyList[1])

\* two task ids were retrieved; a document without task id went under the
\* first one, a document of the second task under the second one
C23_Witness ==
  /\ pc = "grouped"
  /\ Len(keyList) >= 2
  /\ \E i, j \in 1..Len(documents) :
       /\ documents[i].taskId = NullNum
       /\ documents[i] \in Range(GroupedUnder(keyList[1]))
       /\ documents[j].taskId = keyList[2]
       /\ documents[j] \in Range(GroupedUnder(keyList[2]))

\* ---------------------------------------------------------------- C24

\* APP_URL up to its last character that is no slash
ConfiguredBase ==
  LET ends == {n \in 0..Len(APP_URL) :
                 /\ n > 0 => APP_URL[n] # "/"
                 /\ \A i \in (n + 1)..Len(APP_URL) : APP_URL[i] = "/"}
  IN SubSeq(APP_URL, 1, CHOOSE n \in ends : TRUE)

\* C24: in a success result the link of each task view to the care portal
\* is the base, i.e. APP_URL without the slashes at its end, followed by
\* /admin/tasks/ and the task id; it is null when there is no base (APP_URL
\* unset or empty, or nothing left of it without the slashes).
C24_TaskLinkFromTrimmedBase ==
  Succeeded =>
    \A i \in 1..Len(result.data.tasks) :
      result.data.tasks[i].links.carePortalTask
        = (IF ConfiguredBase = <<>> THEN Null
           ELSE ConfiguredBase \o <<"/","a","d","m","i","n","/","t","a","s","k","s","/">>
                  \o <<Digits[tasksResult[i].id + 1]>>)

\* APP_URL ends with several slashes and the link has none before /admin
C24_Witness ==
  /\ Succeeded
  /\ APP_URL = FixtureAppUrl \o <<"/","/">>
  /\ result.data.tasks[1].links.carePortalTask
       = FixtureAppUrl \o <<"/","a","d","m","i","n","/","t","a","s","k","s","/","1">>

\* ---------------------------------------------------------------- C25

\* a text that is not empty and holds white space only
WhitespaceOnly(v) ==
  /\ v \notin {Null, Undefined, <<>>}
  /\ \A i \in 1..Len(v) : v[i] \in WhiteSpace

\* absent, empty or white space only
Unusable(v) == v \in {Null, Undefined, <<>>} \/ WhitespaceOnly(v)

\* the stored patients with this phone, with this email
PatientsWithPhone(v) == {r \in db.patients : r.phone = Trim(v)}

PatientsWithEmail(v) == {r \in db.patients : r.email = Trim(v)}

\* C25: a call whose identifiers are white space only (one of them, the
\* other absent, empty or white space too) is not answered with status 400:
\* it ends with status 404 and not one store query; when one identifier is
\* white space only and the other is not, the patient is resolved by the
\* other one alone.
C25_BlankIdentifierIs404 ==
  /\ (Returned /\ Unusable(email) /\ Unusable(phone)
        /\ (WhitespaceOnly(email) \/ WhitespaceOnly(phone))) =>
       /\ result = [success |-> FALSE,
                    error |-> "Patient not found for the provided criteria",
                    status |-> 404]
       /\ queries = <<>>
  /\ (ResolverAnswered /\ WhitespaceOnly(email) /\ ~Unusable(phone)) =>
       IF PatientsWithPhone(phone) = {} THEN patientRecord = NullRow
       ELSE /\ patientRecord \in PatientsWithPhone(phone)
            /\ \A r \in PatientsWithPhone(phone) : r.createdAt <= patientRecord.createdAt
  /\ (ResolverAnswered /\ WhitespaceOnly(phone) /\ ~Unusable(email)) =>
       IF PatientsWithEmail(email) = {} THEN patientRecord = NullRow
       ELSE /\ patientRecord \in PatientsWithEmail(email)
            /\ \A r \in PatientsWithEmail(email) : r.createdAt <= patientRecord.createdAt

\* the email is one blank and there is no phone: answered with 404 without
\* a query
C25_Witness ==
  /\ pc = "responded"
  /\ email = <<" ">>
  /\ phone = Undefined
  /\ response.status = 404
  /\ queries = <<>>

\* ---------------------------------------------------------------- C26

\* the documents listed in a task view
ListedIn(view) == UNION {Range(view.documents[key]) : key \in DOMAIN view.documents}

\* C26: in a success result every document listed in a task view is of that
\* task, every loaded document is listed in the view of its task and in no
\* other; the documents loaded in a call all have the id of a retrieved
\* task, so that no document takes the grouping step's fallback.
C26_DocumentUnderItsOwnTask ==
  /\ Succeeded =>
       /\ \A i \in 1..Len(result.data.tasks) :
            \A doc \in ListedIn(result.data.tasks[i]) :
              doc.taskId = result.data.tasks[i].taskId
       /\ \A j \in 1..Len(sanitizedDocuments) :
            {i \in 1..Len(result.data.tasks) :
               sanitizedDocuments[j] \in ListedIn(result.data.tasks[i])}
              = {i \in 1..Len(result.data.tasks) :
                   result.data.tasks[i].taskId = sanitizedDocuments[j].taskId}
  /\ DocumentsLoaded =>
       \A j \in 1..Len(sanitizedDocuments) :
         /\ sanitizedDocuments[j].taskId # NullNum
         /\ sanitizedDocuments[j].taskId \in Range(TaskIds(tasksResult))

\* the second task view lists a document; the patient has a stored document
\* without task, which no view lists
C26_Witness ==
  /\ Succeeded
  /\ Len(result.data.tasks) >= 2
  /\ ListedIn(result.data.tasks[2]) # {}
  /\ \E d \in db.documents :
       /\ d.taskId = NullNum
       /\ d.patientId = patientRecord.id
       /\ d.doctorId = 1

\* ---------------------------------------------------------------- C27

\* C27: what fetchTaskDetailsByContact returns is a failure with status
\* 400, 404 or 500, or a success with at least one task view, at most 25 and
\* at most as many as the clamped limit, and with the patient the resolver
\* found; no success has an empty list of tasks.
C27_ResultIsFailureOrBoundedSuccess ==
  Returned =>
    IF result.success
      THEN /\ Len(result.data.tasks) >= 1
           /\ Len(result.data.tasks) <= 25
           /\ enforcedLimit.k = "num"
           /\ 10 * Len(result.data.tasks) <= enforcedLimit.v
           /\ patientRecord \in db.patients
           /\ result.data.patient.id = patientRecord.id
           /\ result.data.patient.email = patientRecord.email
      ELSE result.status \in {400, 404, 500}

\* a success with as many task views as the limit allows, fewer than the
\* patient has tasks
C27_Witness ==
  /\ Succeeded
  /\ enforcedLimit = IntNum(2)
  /\ Len(result.data.tasks) = 2
  /\ Cardinality({t \in db.tasks : t.patientId = patientRecord.id}) > 2

\* ---------------------------------------------------------------- C28

\* the stored row of the resolved patient
StoredPatient == CHOOSE r \in db.patients : r.id = patientRecord.id

\* C28: the patient object of a success result has every field of the
\* stored patient row with the stored value (password,
\* paymentProviderCustomerId and driverLicense among them), except dob,
\* which is the ISO text of the stored day or null; the keys it has beyond
\* the stored ones are age, first_name and last_name.
C28_PatientFieldsPassThrough ==
  Succeeded =>
    /\ DOMAIN result.data.patient = DOMAIN StoredPatient \cup {"age", "first_name", "last_name"}
    /\ {"password", "paymentProviderCustomerId", "driverLicense"}
         \subseteq DOMAIN result.data.patient
    /\ \A key \in DOMAIN StoredPatient \ {"dob"} :
         result.data.patient[key] = StoredPatient[key]
    /\ result.data.patient.dob
         = (IF StoredPatient.dob = NullNum THEN Null ELSE IsoText(StoredPatient.dob))

\* a patient with password, payment customer id, driver license and day of
\* birth stored; the result has them, the day as ISO text
C28_Witness ==
  /\ Succeeded
  /\ StoredPatient.password = Text("hash1")
  /\ result.data.patient.password = Text("hash1")
  /\ result.data.patient.paymentProviderCustomerId = Text("cus_1")
  /\ result.data.patient.driverLicense = Text("D123")
  /\ result.data.patient.dob
       = <<"2","0","0","0","-","0","6","-","1","5","T","0","0",":","0","0",":",
           "0","0",".","0","0","0","Z">>
  /\ result.data.patient.age = 23

\* ---------------------------------------------------------------- C29

\* /admin/patients/<id>/edit for the resolved patient
RelativePatientLink ==
  <<"/","a","d","m","i","n","/","p","a","t","i","e","n","t","s","/">>
    \o <<Digits[patientRecord.id + 1]>> \o <<"/","e","d","i","t">>

\* C29: the link of a success result to the patient in the care portal is
\* never null: it is the base followed by /admin/patients/<id>/edit, and
\* without a base it is this path alone, while the link of every task view
\* of the same result is null.
C29_PatientLinkNeverNull ==
  Succeeded =>
    /\ result.data.links.carePortalPatient # Null
    /\ result.data.links.carePortalPatient = ConfiguredBase \o RelativePatientLink
    /\ ConfiguredBase = <<>> =>
         /\ result.data.links.carePortalPatient = RelativePatientLink
         /\ \A i \in 1..Len(result.data.tasks) :
              result.data.tasks[i].links.carePortalTask = Null

\* APP_URL is empty: the patient link is the path alone, the task link null
C29_Witness ==
  /\ Succeeded
  /\ APP_URL = <<>>
  /\ result.data.links.carePortalPatient = RelativePatientLink
  /\ result.data.tasks[1].links.carePortalTask = Null

\* ---------------------------------------------------------------- C30

\* the requester the widget got has neither email nor phone
RequesterWithoutContact ==
  /\ requesterRes # Pending
  /\ requesterRes.ok
  /\ \/ requesterRes.value = NullRow
     \/ requesterRes.value.requester = NullRow
     \/ /\ requesterRes.value.requester.email \in {Undefined, Null, <<>>}
        /\ requesterRes.value.requester.phone \in {Undefined, Null, <<>>}

\* the request failed or came back empty
RequestFailedOrEmpty ==
  /\ apiResponse # Pending
  /\ ~apiResponse.ok \/ apiResponse.value \in {Undefined, Null, <<>>}

\* C30: the widget calls client.request at most once; when it does, the
\* metadata promise has resolved and API_URL and API_KEY hold its settings,
\* which the request carries, and the requester has an email or a phone.
\* For a requester with neither, and when the request fails or its response
\* is empty, the widget shows the error message in #loading and #content
\* is never written.
C30_WidgetRequestsOnceAfterSettings ==
  /\ Len(requestsSent) <= 1
  /\ requestsSent # <<>> =>
       /\ metadata = "resolved"
       /\ API_URL = settings.API_URL /\ API_KEY = settings.X_KEY
       /\ requestsSent[1].url = settings.API_URL
       /\ requestsSent[1].key = settings.X_KEY
       /\ ~RequesterWithoutContact
  /\ RequesterWithoutContact \/ RequestFailedOrEmpty =>
       /\ widget = "done"
       /\ loadingEl.display = "block"
       /\ loadingEl.error
       /\ contentEl = Null
  /\ RequesterWithoutContact => requestsSent = <<>>

\* the requester has an empty email and no phone: no request, the error
\* is shown
C30_Witness ==
  /\ widget = "done"
  /\ requesterRes = Resolved([requester |-> [email |-> <<>>, phone |-> Null]])
  /\ requestsSent = <<>>
  /\ loadingEl = showError("Requester has no email or phone")
  /\ contentEl = Null

====
